---------------------------- MODULE Spec2Model ----------------------------
(***************************************************************************)
(* BlogFlow AI: the orchestration core of run_blog_pipeline (src/main.py), *)
(* the MemoryBank (src/memory.py), the four agents (src/agents/*.py) and   *)
(* the configuration check of the command line entry main (src/main.py).   *)
(*                                                                         *)
(* Representation.                                                         *)
(*  - A Python str is a sequence of one-character strings, so that strip,  *)
(*    split, startswith, replace, lower and the score regex are computed   *)
(*    as the code computes them.                                           *)
(*  - A Python float score is an integer number of hundredths (7.0 is 700, *)
(*    5.0 is 500); the texts the model draws carry at most two decimals    *)
(*    and the heuristic scores are even, so (a + b) / 2 is exact.          *)
(*  - A Python dict is a record; the empty dict {} is the record with no   *)
(*    field, and d.get(k, default) is Get(d, k, default).                  *)
(*  - The text generation port (client.models.generate_content) is an      *)
(*    opaque capability: every call either returns one of a small set of   *)
(*    texts or raises an error carrying a message; with an API key the    *)
(*    service does not accept, every call raises.                          *)
(*  - An API key is an opaque token; "" stands for a key that is not set.  *)
(***************************************************************************)
EXTENDS Integers, Sequences, FiniteSets, TLC

VARIABLES
    GOOGLE_API_KEY,         \* config.GOOGLE_API_KEY (read-only after Init)
    pc,                     \* position of run_blog_pipeline
    topic,                  \* argument topic
    memory,                 \* the MemoryBank of the run
    MAX_EDITOR_ITERATIONS,  \* config.MAX_EDITOR_ITERATIONS (read-only after Init)
    research_brief,         \* local research_brief (main.py:83)
    initial_draft,          \* local initial_draft (main.py:89)
    approved,               \* local approved (main.py:104)
    iteration,              \* local iteration (main.py:105)
    feedback,               \* local feedback (main.py:112)
    article,                \* final_article handed to the file writer (main.py:143)
    report,                 \* the editorial report printed at the end (main.py:164)
    stages,                 \* history: the stages run so far, in order
    calls,                  \* history: the generation calls made so far, in order
    reviewed,               \* history: per Review call, what it saw and returned
    prompts,                \* history: what the writer built each of its prompts from
    response_text,          \* a call of _parse_review on its own: its argument
    parsed,                 \* ... and what the call returned ({} before the call)
    runs,                   \* concurrent calls of run_blog_pipeline: the locals of each
    bank,                   \* a MemoryBank used on its own
    last_call,              \* ... and the name of the last method called on it
    draft_text,             \* a draft scored on its own
    scored                  \* ... and its scores ({} before the scoring)

\* The variables of what is studied apart from a single pipeline run
parserVars == <<response_text, parsed>>

bankVars == <<bank, last_call>>

scorerVars == <<draft_text, scored>>

apart == <<parserVars, runs, bankVars, scorerVars>>

vars == <<GOOGLE_API_KEY, pc, topic, memory, MAX_EDITOR_ITERATIONS, research_brief, initial_draft,
          approved, iteration, feedback, article, report, stages, calls, reviewed, prompts, apart>>

-----------------------------------------------------------------------------
(* Bounds of the model *)

\* Largest value of config.MAX_EDITOR_ITERATIONS a run is started with.
MaxIterationsBound == 3

-----------------------------------------------------------------------------
(* Python str operations, on sequences of characters *)

Whitespace == {" ", "\t", "\n", "\r"}

DigitChars == {"0", "1", "2", "3", "4", "5", "6", "7", "8", "9"}

DigitVal(c) ==
    CASE c = "0" -> 0 [] c = "1" -> 1 [] c = "2" -> 2 [] c = "3" -> 3
      [] c = "4" -> 4 [] c = "5" -> 5 [] c = "6" -> 6 [] c = "7" -> 7
      [] c = "8" -> 8 [] c = "9" -> 9

\* s[i:] with a 1-based first index
From(s, i) == SubSeq(s, i, Len(s))

\* s.startswith(p)
StartsWith(s, p) == Len(s) >= Len(p) /\ SubSeq(s, 1, Len(p)) = p

RECURSIVE LStrip(_)
LStrip(s) ==
    IF s # <<>> /\ Head(s) \in Whitespace THEN LStrip(Tail(s)) ELSE s

RECURSIVE RStrip(_)
RStrip(s) ==
    IF s # <<>> /\ s[Len(s)] \in Whitespace THEN RStrip(SubSeq(s, 1, Len(s) - 1)) ELSE s

\* s.strip()
Strip(s) == RStrip(LStrip(s))

\* s.split(sep) for a one-character separator: always at least one field
RECURSIVE SplitOn(_, _, _)
SplitOn(s, sep, cur) ==
    IF s = <<>> THEN <<cur>>
    ELSE IF Head(s) = sep THEN <<cur>> \o SplitOn(Tail(s), sep, <<>>)
    ELSE SplitOn(Tail(s), sep, Append(cur, Head(s)))

Split(s, sep) == SplitOn(s, sep, <<>>)

\* s.replace(p, ''): every non-overlapping occurrence of p, left to right
RECURSIVE Remove(_, _)
Remove(s, p) ==
    IF s = <<>> THEN <<>>
    ELSE IF StartsWith(s, p) THEN Remove(From(s, Len(p) + 1), p)
    ELSE <<Head(s)>> \o Remove(Tail(s), p)

\* p in s
RECURSIVE Contains(_, _)
Contains(s, p) ==
    IF StartsWith(s, p) THEN TRUE
    ELSE IF s = <<>> THEN FALSE
    ELSE Contains(Tail(s), p)

\* len(s.split()): the number of maximal runs of non-whitespace characters
RECURSIVE WordCount(_, _)
WordCount(s, inWord) ==
    IF s = <<>> THEN 0
    ELSE IF Head(s) \in Whitespace THEN WordCount(Tail(s), FALSE)
    ELSE (IF inWord THEN 0 ELSE 1) + WordCount(Tail(s), TRUE)

LowerChar(c) ==
    CASE c = "A" -> "a" [] c = "B" -> "b" [] c = "C" -> "c" [] c = "D" -> "d"
      [] c = "E" -> "e" [] c = "F" -> "f" [] c = "G" -> "g" [] c = "H" -> "h"
      [] c = "I" -> "i" [] c = "J" -> "j" [] c = "K" -> "k" [] c = "L" -> "l"
      [] c = "M" -> "m" [] c = "N" -> "n" [] c = "O" -> "o" [] c = "P" -> "p"
      [] c = "Q" -> "q" [] c = "R" -> "r" [] c = "S" -> "s" [] c = "T" -> "t"
      [] c = "U" -> "u" [] c = "V" -> "v" [] c = "W" -> "w" [] c = "X" -> "x"
      [] c = "Y" -> "y" [] c = "Z" -> "z" [] OTHER -> c

\* s.lower()
Lower(s) == [i \in 1..Len(s) |-> LowerChar(s[i])]

\* The longest prefix of s made of digits
RECURSIVE DigitRun(_)
DigitRun(s) ==
    IF s # <<>> /\ Head(s) \in DigitChars THEN <<Head(s)>> \o DigitRun(Tail(s)) ELSE <<>>

\* The first index of a digit in s, 0 when there is none
RECURSIVE FirstDigit(_, _)
FirstDigit(s, i) ==
    IF i > Len(s) THEN 0
    ELSE IF s[i] \in DigitChars THEN i
    ELSE FirstDigit(s, i + 1)

\* int(ds) for a sequence of digits
RECURSIVE DigitsValue(_, _)
DigitsValue(ds, acc) ==
    IF ds = <<>> THEN acc ELSE DigitsValue(Tail(ds), 10 * acc + DigitVal(Head(ds)))

\* Python dict.get(k, default)
Get(d, k, default) == IF k \in DOMAIN d THEN d[k] ELSE default

\* The empty dict {}
EmptyDict == [k \in {} |-> 0]


-----------------------------------------------------------------------------
(* src/config.py *)

\* config.QUALITY_THRESHOLD = 7.0, in hundredths
QUALITY_THRESHOLD == 700

\* config.DEFAULT_STYLE_GUIDE (its first line stands for the whole text, which
\* only ever reaches prompts)
DEFAULT_STYLE_GUIDE ==
    <<"W","r","i","t","i","n","g"," ","S","t","y","l","e"," ","G","u","i","d","e","l","i","n","e","s",":">>

-----------------------------------------------------------------------------
(* src/memory.py: MemoryBank *)

\* MemoryBank.__init__
MemoryBank(style_guide) ==
    [style_guide     |-> style_guide,
     research_data   |-> EmptyDict,
     drafts          |-> <<>>,
     seo_data        |-> EmptyDict,
     editor_feedback |-> <<>>]

\* Faulty variant: the brief is returned but not stored
store_research_dropped(m, data) == m

store_research(m, data) == [m EXCEPT !.research_data = data]

get_research(m) == m.research_data

\* Faulty variant: the new draft replaces the history instead of extending it
add_draft_replacing(m, draft) == [m EXCEPT !.drafts = <<draft>>]

\* Faulty variant: the draft is never added
add_draft_forgotten(m, draft) == m

add_draft(m, draft) == [m EXCEPT !.drafts = Append(@, draft)]

\* Faulty variant: the first draft is taken for the latest
get_latest_draft_first(m) == IF m.drafts # <<>> THEN m.drafts[1] ELSE <<>>

get_latest_draft(m) == IF m.drafts # <<>> THEN m.drafts[Len(m.drafts)] ELSE <<>>

get_all_drafts(m) == m.drafts

\* Faulty variant: the SEO data is not kept
store_seo_data_dropped(m, seo_data) == m

store_seo_data(m, data) == [m EXCEPT !.seo_data = data]

get_seo_data(m) == m.seo_data

\* Faulty variant: recording a review also resets the research data
add_editor_feedback_resetting(m, fb) ==
    [m EXCEPT !.editor_feedback = Append(@, fb), !.research_data = EmptyDict]

add_editor_feedback(m, fb) == [m EXCEPT !.editor_feedback = Append(@, fb)]

get_latest_feedback(m) ==
    IF m.editor_feedback # <<>> THEN m.editor_feedback[Len(m.editor_feedback)]
    ELSE EmptyDict

\* Faulty variant: the feedback history survives
clear_keeping_feedback(m) ==
    [m EXCEPT !.research_data = EmptyDict, !.drafts = <<>>, !.seo_data = EmptyDict]

\* MemoryBank.clear
clear(m) ==
    [m EXCEPT !.research_data   = EmptyDict,
              !.drafts          = <<>>,
              !.seo_data        = EmptyDict,
              !.editor_feedback = <<>>]

\* Faulty variant: the count is one too high
get_feedback_count_one_more(m) == Len(m.editor_feedback) + 1

get_feedback_count(m) == Len(m.editor_feedback)

-----------------------------------------------------------------------------
(* The text generation port: what one generate_content call may do *)

\* str(e) of the exception a failed call raises
Errors == { <<"q","u","o","t","a">> }

Failed(e) == [ok |-> FALSE, error |-> e]

Returned(t) == [ok |-> TRUE, text |-> t]

\* The keys a run may be configured with: none, the placeholder of
\* .env.example, a key the service rejects and a key it accepts
Keys == {"", "your_api_key_here", "revoked", "working"}

AcceptedKeys == {"working"}

\* The message of the error every call raises under a key that is not accepted
AuthErrors == { <<"4","0","1">> }

\* A plain generation call answering with one of `texts`, or failing
Outcomes(texts) ==
    IF GOOGLE_API_KEY \in AcceptedKeys
    THEN {Returned(t) : t \in texts} \cup {Failed(e) : e \in Errors}
    ELSE {Failed(e) : e \in AuthErrors}

ResearchTexts == { <<"f","a","c","t","s">> }

\* "## H\n\np q\n\n- b" and the empty text
DraftTexts ==
    { <<"#","#"," ","H","\n","\n","p"," ","q","\n","\n","-"," ","b">>,
      <<>> }

\* "## AI\n\np q\n\n- b"
OptimizedTexts ==
    { <<"#","#"," ","A","I","\n","\n","p"," ","q","\n","\n","-"," ","b">> }

\* " ai, bots" and the empty text
KeywordTexts == { <<" ","a","i",","," ","b","o","t","s">>, <<>> }

\* "SCORE: 9\nSTRENGTHS:\n- ok" and "SCORE: 3.5/10\nISSUES:\n- dull"
ReviewTexts ==
    { <<"S","C","O","R","E",":"," ","9","\n","S","T","R","E","N","G","T","H","S",":","\n","-"," ","o","k">>,
      <<"S","C","O","R","E",":"," ","3",".","5","/","1","0","\n","I","S","S","U","E","S",":","\n","-"," ","d","u","l","l">> }

\* "TITLE: T\nDESCRIPTION: d" and "none"
MetaTexts ==
    { <<"T","I","T","L","E",":"," ","T","\n","D","E","S","C","R","I","P","T","I","O","N",":"," ","d">>,
      <<"n","o","n","e">> }

\* response.candidates[0].grounding_metadata of a grounded call: whether the
\* attribute is there, whether it has a search_entry_point, and its chunks
\* (each with or without a web.uri)
Groundings ==
    { [metadata |-> TRUE, search_entry_point |-> TRUE,
       grounding_chunks |-> << [uri |-> TRUE, value |-> <<"h","t","t","p",":","/","/","a">>] >>] }

\* The grounded (google_search) call of the Research stage
GroundedOutcomes ==
    IF GOOGLE_API_KEY \in AcceptedKeys
    THEN {[ok |-> TRUE, text |-> t, grounding |-> g] : t \in ResearchTexts, g \in Groundings}
            \cup {Failed(e) : e \in Errors}
    ELSE {Failed(e) : e \in AuthErrors}

-----------------------------------------------------------------------------
(* utils.py is not part of the sources; these follow the specification *)

\* compact_research_context: one text in, the same text out
compact_research_context(texts) == IF texts = <<>> THEN <<>> ELSE texts[1]

\* The lines of a text that are list items ("- x"), without the dash
RECURSIVE ItemLines(_)
ItemLines(lines) ==
    IF lines = <<>> THEN <<>>
    ELSE (IF StartsWith(Strip(Head(lines)), <<"-"," ">>)
          THEN <<Strip(From(Strip(Head(lines)), 3))>> ELSE <<>>)
         \o ItemLines(Tail(lines))

\* format_research_brief: the ResearchBrief of the data model
format_research_brief(t, findings, sources) ==
    [topic      |-> t,
     findings   |-> findings,
     key_points |-> ItemLines(Split(findings, "\n")),
     sources    |-> sources,
     timestamp  |-> <<"2","0","2","5","-","1","1","-","2","9">>]

\* The number of blank-line separated blocks of a text
RECURSIVE Paragraphs(_, _)
Paragraphs(s, inBlock) ==
    IF s = <<>> THEN 0
    ELSE IF StartsWith(s, <<"\n","\n">>) THEN Paragraphs(From(s, 3), FALSE)
    ELSE IF Head(s) \in Whitespace THEN Paragraphs(Tail(s), inBlock)
    ELSE (IF inBlock THEN 0 ELSE 1) + Paragraphs(Tail(s), TRUE)

Min(a, b) == IF a <= b THEN a ELSE b

\* Faulty variant: headers lower the score instead of raising it
calculate_quality_score_headers_penalised(text) ==
    Min(WordCount(text, FALSE), 4) * 100
      + (IF Contains(text, <<"#","#">>) THEN 0 ELSE 300)
      + (IF Paragraphs(text, FALSE) >= 2 THEN 200 ELSE 0)
      + (IF Contains(text, <<"\n","-"," ">>) \/ StartsWith(text, <<"-"," ">>) THEN 100 ELSE 0)

\* calculate_quality_score: a pure function of the text into [0, 10], from its
\* word count, header presence, paragraph count and bullet lists
calculate_quality_score(text) ==
    Min(WordCount(text, FALSE), 4) * 100
      + (IF Contains(text, <<"#","#">>) THEN 300 ELSE 0)
      + (IF Paragraphs(text, FALSE) >= 2 THEN 200 ELSE 0)
      + (IF Contains(text, <<"\n","-"," ">>) \/ StartsWith(text, <<"-"," ">>) THEN 100 ELSE 0)

\* format_output_article: a leading metadata block followed by the body
format_output_article(body, metadata) == [metadata |-> metadata, body |-> body]

-----------------------------------------------------------------------------
(* How a method call ends: it returns a value, or an exception leaves it *)

Return(v) == [raised |-> FALSE, value |-> v]

Raise(e) == [raised |-> TRUE, error |-> e]

-----------------------------------------------------------------------------
(* src/agents/editor.py: EditorAgent *)

\* Faulty variant: the digits before the decimal point only
ScoreMatch_whole_part(score_text) ==
    LET i == FirstDigit(score_text, 1)
    IN  IF i = 0 THEN [found |-> FALSE, value |-> 0]
        ELSE [found |-> TRUE, value |-> 100 * DigitsValue(DigitRun(From(score_text, i)), 0)]

\* Faulty variant: a score text without a digit counts as 0
ScoreMatch_zero_when_absent(score_text) ==
    LET i == FirstDigit(score_text, 1)
    IN  IF i = 0 THEN [found |-> TRUE, value |-> 0]
        ELSE LET whole == DigitRun(From(score_text, i))
                 rest  == From(score_text, i + Len(whole))
                 frac  == IF rest # <<>> /\ Head(rest) = "." THEN DigitRun(Tail(rest))
                          ELSE <<>>
                 cents == IF Len(frac) = 0 THEN 0
                          ELSE IF Len(frac) = 1 THEN 10 * DigitVal(frac[1])
                          ELSE 10 * DigitVal(frac[1]) + DigitVal(frac[2])
             IN  [found |-> TRUE, value |-> 100 * DigitsValue(whole, 0) + cents]

\* The regex search r'\d+\.?\d*' in score_text, then float() of the match:
\* [found, value]. Digits beyond the second decimal are dropped (hundredths).
ScoreMatch(score_text) ==
    LET i == FirstDigit(score_text, 1)
    IN  IF i = 0 THEN [found |-> FALSE, value |-> 0]
        ELSE LET whole == DigitRun(From(score_text, i))
                 rest  == From(score_text, i + Len(whole))
                 frac  == IF rest # <<>> /\ Head(rest) = "." THEN DigitRun(Tail(rest))
                          ELSE <<>>
                 cents == IF Len(frac) = 0 THEN 0
                          ELSE IF Len(frac) = 1 THEN 10 * DigitVal(frac[1])
                          ELSE 10 * DigitVal(frac[1]) + DigitVal(frac[2])
             IN  [found |-> TRUE, value |-> 100 * DigitsValue(whole, 0) + cents]

\* Faulty variant: an item is put at the front of its list
ParseLine_prepending(st, raw) ==
    LET line == Strip(raw)
    IN  IF StartsWith(line, <<"S","C","O","R","E",":">>)
        THEN LET m == ScoreMatch(Strip(Remove(line, <<"S","C","O","R","E",":">>)))
             IN  IF m.found
                 THEN [st EXCEPT !.feedback.score = m.value]
                 ELSE st
        ELSE IF line = <<"I","S","S","U","E","S",":">>
        THEN [st EXCEPT !.current_section = "issues"]
        ELSE IF line = <<"S","U","G","G","E","S","T","I","O","N","S",":">>
        THEN [st EXCEPT !.current_section = "suggestions"]
        ELSE IF line = <<"S","T","R","E","N","G","T","H","S",":">>
        THEN [st EXCEPT !.current_section = "strengths"]
        ELSE IF StartsWith(line, <<"-"," ">>) /\ st.current_section # ""
        THEN LET item == Strip(From(line, 3))
             IN  IF item # <<>>
                 THEN [st EXCEPT !.feedback[st.current_section] = <<item>> \o @]
                 ELSE st
        ELSE st

\* Faulty variant: a score once read is not replaced by a later SCORE line
ParseLine_first_score(st, raw) ==
    LET line == Strip(raw)
    IN  IF StartsWith(line, <<"S","C","O","R","E",":">>)
        THEN LET m == ScoreMatch(Strip(Remove(line, <<"S","C","O","R","E",":">>)))
             IN  IF m.found /\ st.feedback.score = 500
                 THEN [st EXCEPT !.feedback.score = m.value]
                 ELSE st
        ELSE IF line = <<"I","S","S","U","E","S",":">>
        THEN [st EXCEPT !.current_section = "issues"]
        ELSE IF line = <<"S","U","G","G","E","S","T","I","O","N","S",":">>
        THEN [st EXCEPT !.current_section = "suggestions"]
        ELSE IF line = <<"S","T","R","E","N","G","T","H","S",":">>
        THEN [st EXCEPT !.current_section = "strengths"]
        ELSE IF StartsWith(line, <<"-"," ">>) /\ st.current_section # ""
        THEN LET item == Strip(From(line, 3))
             IN  IF item # <<>>
                 THEN [st EXCEPT !.feedback[st.current_section] = Append(@, item)]
                 ELSE st
        ELSE st

\* One turn of the for loop of _parse_review (editor.py:147-169) on the state
\* st = [feedback, current_section]; current_section "" is None
ParseLine(st, raw) ==
    LET line == Strip(raw)
    IN  IF StartsWith(line, <<"S","C","O","R","E",":">>)
        THEN LET m == ScoreMatch(Strip(Remove(line, <<"S","C","O","R","E",":">>)))
             IN  IF m.found
                 THEN [st EXCEPT !.feedback.score = m.value]
                 ELSE st
        ELSE IF line = <<"I","S","S","U","E","S",":">>
        THEN [st EXCEPT !.current_section = "issues"]
        ELSE IF line = <<"S","U","G","G","E","S","T","I","O","N","S",":">>
        THEN [st EXCEPT !.current_section = "suggestions"]
        ELSE IF line = <<"S","T","R","E","N","G","T","H","S",":">>
        THEN [st EXCEPT !.current_section = "strengths"]
        ELSE IF StartsWith(line, <<"-"," ">>) /\ st.current_section # ""
        THEN LET item == Strip(From(line, 3))
             IN  IF item # <<>>
                 THEN [st EXCEPT !.feedback[st.current_section] = Append(@, item)]
                 ELSE st
        ELSE st

RECURSIVE ParseLines(_, _)
ParseLines(st, lines) ==
    IF lines = <<>> THEN st ELSE ParseLines(ParseLine(st, Head(lines)), Tail(lines))

\* Faulty variant: the record starts with score 0.0
_parse_review_from_zero(review_text) ==
    ParseLines([feedback |-> [score |-> 0, issues |-> <<>>, suggestions |-> <<>>,
                              strengths |-> <<>>],
                current_section |-> ""],
               Split(review_text, "\n")).feedback

\* EditorAgent._parse_review
_parse_review(review_text) ==
    ParseLines([feedback |-> [score |-> 500, issues |-> <<>>, suggestions |-> <<>>,
                              strengths |-> <<>>],
                current_section |-> ""],
               Split(review_text, "\n")).feedback

\* Faulty variant: the parser's default score instead of 6.0
ReviewErrorFeedback_default_score(e) ==
    [score       |-> 500,
     issues      |-> << <<"R","e","v","i","e","w"," ","e","r","r","o","r",":"," ">> \o e >>,
     suggestions |-> << <<"M","a","n","u","a","l"," ","r","e","v","i","e","w"," ","r","e","c","o","m","m","e","n","d","e","d">> >>,
     strengths   |-> <<>>]

\* The dict the except branch of _detailed_review builds (editor.py:127-132)
ReviewErrorFeedback(e) ==
    [score       |-> 600,
     issues      |-> << <<"R","e","v","i","e","w"," ","e","r","r","o","r",":"," ">> \o e >>,
     suggestions |-> << <<"M","a","n","u","a","l"," ","r","e","v","i","e","w"," ","r","e","c","o","m","m","e","n","d","e","d">> >>,
     strengths   |-> <<>>]

\* EditorAgent._detailed_review, given what its generation call did
_detailed_review(draft, m, out) ==
    IF out.ok THEN Return(_parse_review(out.text))
    ELSE Return(ReviewErrorFeedback(out.error))

\* Faulty variant: no forced approval once the budget is used up
Approval_unforced(final_score, it, max_iterations) ==
    final_score >= QUALITY_THRESHOLD

\* Faulty variant: the forced approval comes one iteration late
Approval_late(final_score, it, max_iterations) ==
    final_score >= QUALITY_THRESHOLD \/ it > max_iterations

\* The approval decision of EditorAgent.review (editor.py:47-57)
Approval(final_score, it, max_iterations) ==
    IF final_score >= QUALITY_THRESHOLD THEN TRUE
    ELSE IF it >= max_iterations THEN TRUE
    ELSE FALSE

\* Faulty variant: the raw LLM score is stored and compared
review_raw_score(draft, m, max_iterations, out) ==
    LET it          == get_feedback_count(m) + 1
        detailed    == _detailed_review(draft, m, out)
    IN  IF detailed.raised THEN detailed
        ELSE LET detailed_feedback == detailed.value
                 final_score       == Get(detailed_feedback, "score", 500)
                 fb == [score       |-> final_score,
                        issues      |-> detailed_feedback.issues,
                        suggestions |-> detailed_feedback.suggestions,
                        strengths   |-> detailed_feedback.strengths,
                        iteration   |-> it]
             IN  Return([approved |-> Approval(final_score, it, max_iterations),
                         feedback |-> fb,
                         memory   |-> add_editor_feedback(m, fb)])

\* EditorAgent.review, given what its generation call did; it returns
\* (approved, feedback) and leaves the feedback appended to the memory
review(draft, m, max_iterations, out) ==
    LET it          == get_feedback_count(m) + 1
        basic_score == calculate_quality_score(draft)
        detailed    == _detailed_review(draft, m, out)
    IN  IF detailed.raised THEN detailed
        ELSE LET detailed_feedback == detailed.value
                 ai_score          == Get(detailed_feedback, "score", 500)
                 final_score       == (basic_score + ai_score) \div 2
                 fb == [score       |-> final_score,
                        issues      |-> detailed_feedback.issues,
                        suggestions |-> detailed_feedback.suggestions,
                        strengths   |-> detailed_feedback.strengths,
                        iteration   |-> it]
             IN  Return([approved |-> Approval(final_score, it, max_iterations),
                         feedback |-> fb,
                         memory   |-> add_editor_feedback(m, fb)])

\* Faulty variant: a run that made a review is reported as approved
generate_final_report_by_verdict(m) ==
    LET final_feedback == get_latest_feedback(m)
    IN  [iterations    |-> get_feedback_count(m),
         status        |-> IF get_feedback_count(m) > 0 THEN "APPROVED" ELSE "NEEDS WORK",
         strengths     |-> Get(final_feedback, "strengths", << <<"N","/","A">> >>),
         word_count    |-> WordCount(get_latest_draft(m), FALSE),
         structure     |-> Contains(get_latest_draft(m), <<"#","#">>),
         seo_optimized |-> DOMAIN get_seo_data(m) # {}]

\* EditorAgent.generate_final_report (editor.py:173-196): what the report
\* states, line by line; the status is computed from the score of the latest
\* feedback record, 0 when there is none
generate_final_report(m) ==
    LET final_feedback == get_latest_feedback(m)
    IN  [iterations    |-> get_feedback_count(m),
         status        |-> IF Get(final_feedback, "score", 0) >= QUALITY_THRESHOLD
                           THEN "APPROVED" ELSE "NEEDS WORK",
         strengths     |-> Get(final_feedback, "strengths", << <<"N","/","A">> >>),
         word_count    |-> WordCount(get_latest_draft(m), FALSE),
         structure     |-> Contains(get_latest_draft(m), <<"#","#">>),
         seo_optimized |-> DOMAIN get_seo_data(m) # {}]

-----------------------------------------------------------------------------
(* src/agents/researcher.py: ResearcherAgent *)

\* The sources read off the grounding metadata (researcher.py:69-77)
GroundingSources(g) ==
    IF ~g.metadata THEN <<>>
    ELSE (IF g.search_entry_point
          THEN << <<"G","o","o","g","l","e"," ","S","e","a","r","c","h">> >> ELSE <<>>)
         \o [i \in 1..Min(Len(g.grounding_chunks), 5) |->
                IF g.grounding_chunks[i].uri THEN g.grounding_chunks[i].value
                ELSE <<"W","e","b"," ","S","o","u","r","c","e">>]

\* The dict the except branch of _fallback_research builds (researcher.py:136-142)
PlaceholderBrief(t) ==
    [topic      |-> t,
     findings   |-> <<"R","e","s","e","a","r","c","h"," ","o","n"," ">> \o t
                     \o <<" ","-"," ","p","l","e","a","s","e"," ","p","r","o","v","i","d","e"," ","m","a","n","u","a","l"," ","i","n","p","u","t">>,
     key_points |-> <<>>,
     sources    |-> <<>>,
     timestamp  |-> <<"2","0","2","5","-","1","1","-","2","9">>]

\* ResearcherAgent._fallback_research, given what its generation call did
_fallback_research(t, out) ==
    IF out.ok
    THEN Return(format_research_brief(t, out.text,
            << <<"M","o","d","e","l"," ","T","r","a","i","n","i","n","g"," ","D","a","t","a"," ","(","P","r","e","-","2","0","2","3",")">> >>))
    ELSE Return(PlaceholderBrief(t))

\* ResearcherAgent.research, given what its grounded call and (when that
\* failed) its fallback call did; it returns the brief and leaves it stored
research(t, m, out, fallbackOut) ==
    IF out.ok
    THEN LET research_brief_ ==
                format_research_brief(t, compact_research_context(<<out.text>>),
                                      GroundingSources(out.grounding))
         IN  Return([brief |-> research_brief_, memory |-> store_research(m, research_brief_)])
    ELSE LET fallback_brief == _fallback_research(t, fallbackOut)
         IN  IF fallback_brief.raised THEN fallback_brief
             ELSE Return([brief  |-> fallback_brief.value,
                          memory |-> store_research(m, fallback_brief.value)])

-----------------------------------------------------------------------------
(* src/agents/writer.py: WriterAgent *)

\* The text the except branch of _create_initial_draft builds (writer.py:87)
PlaceholderDraft(t, e) ==
    <<"#"," ">> \o t
      \o <<"\n","\n","[","D","r","a","f","t"," ","g","e","n","e","r","a","t","i","o","n"," ","f","a","i","l","e","d",":"," ">>
      \o e \o <<"]">>

\* Faulty variant: a failed first draft is the empty text
_create_initial_draft_empty(research_, style_guide, out) ==
    IF out.ok THEN Return(out.text) ELSE Return(<<>>)

\* WriterAgent._create_initial_draft, given what its generation call did
_create_initial_draft(research_, style_guide, out) ==
    LET t == Get(research_, "topic", <<"U","n","k","n","o","w","n"," ","T","o","p","i","c">>)
    IN  IF out.ok THEN Return(out.text)
        ELSE Return(PlaceholderDraft(t, out.error))

\* Faulty variant: the handler lets the error out
_revise_draft_reraising(m, fb, style_guide, out) ==
    IF out.ok THEN Return(out.text) ELSE Raise(out.error)

\* Faulty variant: a failed revision yields the empty text
_revise_draft_blank(m, fb, style_guide, out) ==
    IF out.ok THEN Return(out.text) ELSE Return(<<>>)

\* WriterAgent._revise_draft, given what its generation call did
_revise_draft(m, fb, style_guide, out) ==
    LET current_draft == get_latest_draft(m)
    IN  IF out.ok THEN Return(out.text) ELSE Return(current_draft)

\* bool(d) of a dict or of None (None is the empty dict here)
Truthy(d) == DOMAIN d # {}

\* Faulty variant: a revision starts from the first draft of the run
WriterPrompt_from_first_draft(m, editor_feedback) ==
    IF Truthy(editor_feedback)
    THEN [kind        |-> "revision",
          draft       |-> IF m.drafts # <<>> THEN m.drafts[1] ELSE <<>>,
          issues      |-> Get(editor_feedback, "issues", <<>>),
          suggestions |-> Get(editor_feedback, "suggestions", <<>>),
          score       |-> Get(editor_feedback, "score", 0),
          findings    |-> Get(get_research(m), "findings", <<>>),
          style_guide |-> m.style_guide]
    ELSE [kind        |-> "initial",
          topic       |-> Get(get_research(m), "topic",
                              <<"U","n","k","n","o","w","n"," ","T","o","p","i","c">>),
          findings    |-> Get(get_research(m), "findings", <<>>),
          key_points  |-> Get(get_research(m), "key_points", <<>>),
          sources     |-> Get(get_research(m), "sources", <<>>),
          style_guide |-> m.style_guide]

\* What write_draft puts into the prompt of its generation call: for a
\* revision the latest draft of the memory and the issues, suggestions and
\* score of the feedback it was given (writer.py:92-117), for a first draft
\* the research brief (writer.py:36-55); the style guide in both
WriterPrompt(m, editor_feedback) ==
    IF Truthy(editor_feedback)
    THEN [kind        |-> "revision",
          draft       |-> get_latest_draft(m),
          issues      |-> Get(editor_feedback, "issues", <<>>),
          suggestions |-> Get(editor_feedback, "suggestions", <<>>),
          score       |-> Get(editor_feedback, "score", 0),
          findings    |-> Get(get_research(m), "findings", <<>>),
          style_guide |-> m.style_guide]
    ELSE [kind        |-> "initial",
          topic       |-> Get(get_research(m), "topic",
                              <<"U","n","k","n","o","w","n"," ","T","o","p","i","c">>),
          findings    |-> Get(get_research(m), "findings", <<>>),
          key_points  |-> Get(get_research(m), "key_points", <<>>),
          sources     |-> Get(get_research(m), "sources", <<>>),
          style_guide |-> m.style_guide]

\* Faulty variant: a revision is written like a first draft
write_draft_from_scratch(m, editor_feedback, out) ==
    _create_initial_draft(get_research(m), m.style_guide, out)

\* WriterAgent.write_draft
write_draft(m, editor_feedback, out) ==
    IF Truthy(editor_feedback)
    THEN _revise_draft(m, editor_feedback, m.style_guide, out)
    ELSE _create_initial_draft(get_research(m), m.style_guide, out)

-----------------------------------------------------------------------------
(* src/agents/seo_agent.py: SEOAgent *)

\* Faulty variant: the fallback list starts with the topic as given
_identify_keywords_verbatim(t, draft, out) ==
    IF out.ok
    THEN LET fields   == Split(Strip(out.text), ",")
             keywords == [i \in 1..Len(fields) |-> Strip(fields[i])]
         IN  Return(SubSeq(keywords, 1, Min(Len(keywords), 10)))
    ELSE Return(<< t, <<"b","l","o","g">>, <<"g","u","i","d","e">>,
                   <<"t","u","t","o","r","i","a","l">> >>)

\* SEOAgent._identify_keywords, given what its generation call did
_identify_keywords(t, draft, out) ==
    IF out.ok
    THEN LET fields   == Split(Strip(out.text), ",")
             keywords == [i \in 1..Len(fields) |-> Strip(fields[i])]
         IN  Return(SubSeq(keywords, 1, Min(Len(keywords), 10)))
    ELSE Return(<< Lower(t), <<"b","l","o","g">>, <<"g","u","i","d","e">>,
                   <<"t","u","t","o","r","i","a","l">> >>)

\* Faulty variant: a failed rewrite yields the empty text
_optimize_content_blank(draft, keywords, t, out) ==
    IF out.ok THEN Return(out.text) ELSE Return(<<>>)

\* SEOAgent._optimize_content, given what its generation call did
_optimize_content(draft, keywords, t, out) ==
    IF out.ok THEN Return(out.text) ELSE Return(draft)

\* Faulty variant: the SEO data is stored only when the keyword call succeeded
optimize_skipping_store(draft, t, m, kwOut, optOut) ==
    LET keywords == _identify_keywords(t, draft, kwOut)
    IN  IF keywords.raised THEN keywords
        ELSE LET optimized_draft == _optimize_content(draft, keywords.value, t, optOut)
                 seo_data == [keywords |-> keywords.value, topic |-> t, optimized |-> TRUE]
             IN  IF optimized_draft.raised THEN optimized_draft
                 ELSE Return([draft  |-> optimized_draft.value,
                              memory |-> IF kwOut.ok THEN store_seo_data(m, seo_data) ELSE m])

\* SEOAgent.optimize, given what its two generation calls did; it returns the
\* optimized draft and leaves the SEO data stored
optimize(draft, t, m, kwOut, optOut) ==
    LET keywords == _identify_keywords(t, draft, kwOut)
    IN  IF keywords.raised THEN keywords
        ELSE LET optimized_draft == _optimize_content(draft, keywords.value, t, optOut)
                 seo_data == [keywords |-> keywords.value, topic |-> t, optimized |-> TRUE]
             IN  IF optimized_draft.raised THEN optimized_draft
                 ELSE Return([draft  |-> optimized_draft.value,
                              memory |-> store_seo_data(m, seo_data)])

\* The for loop of generate_meta_tags (seo_agent.py:161-165)
RECURSIVE MetaLines(_, _)
MetaLines(meta_data, lines) ==
    IF lines = <<>> THEN meta_data
    ELSE LET line == Head(lines)
         IN  MetaLines(
                IF StartsWith(line, <<"T","I","T","L","E",":">>)
                THEN [meta_data EXCEPT !.title = Strip(Remove(line, <<"T","I","T","L","E",":">>))]
                ELSE IF StartsWith(line, <<"D","E","S","C","R","I","P","T","I","O","N",":">>)
                THEN [meta_data EXCEPT !.description =
                        Strip(Remove(line, <<"D","E","S","C","R","I","P","T","I","O","N",":">>))]
                ELSE meta_data,
                Tail(lines))

\* generate_meta_tags with no title in the record of its except branch
generate_meta_tags_untitled(draft, keywords, t, out) ==
    IF out.ok
    THEN Return(MetaLines([title |-> t, description |-> <<>>], Split(out.text, "\n")))
    ELSE Return([title |-> <<>>, description |-> <<>>])

\* SEOAgent.generate_meta_tags, given what its generation call did
generate_meta_tags(draft, keywords, t, out) ==
    IF out.ok
    THEN Return(MetaLines([title |-> t, description |-> <<>>], Split(out.text, "\n")))
    ELSE Return([title       |-> t,
                 description |-> <<"L","e","a","r","n"," ","a","b","o","u","t"," ">> \o t
                                  \o <<" ","i","n"," ","t","h","i","s"," ","c","o","m","p","r","e","h","e","n","s","i","v","e"," ","g","u","i","d","e",".">>])

-----------------------------------------------------------------------------
(* src/main.py: run_blog_pipeline *)

\* One invocation: the topic and the style guide text (<<>> when none is given)
Invocations ==
    { [topic |-> <<"A","I">>, style_guide |-> <<>>],
      [topic |-> <<"m","l">>, style_guide |-> <<"f","o","r","m","a","l">>] }

\* Nothing is studied apart
ParserOff == response_text = <<>> /\ parsed = EmptyDict

RunsOff == runs = <<>>

BankOff == bank = EmptyDict /\ last_call = EmptyDict

ScorerOff == draft_text = <<>> /\ scored = EmptyDict

NothingApart == ParserOff /\ RunsOff /\ BankOff /\ ScorerOff

\* The state before the first step at position `at`, given the configured key
Start(key, at) ==
    \E inv \in Invocations, k \in 0..MaxIterationsBound :
        /\ NothingApart
        /\ GOOGLE_API_KEY = key
        /\ pc = at
        /\ topic = inv.topic
        /\ memory = MemoryBank(IF inv.style_guide # <<>> THEN inv.style_guide
                               ELSE DEFAULT_STYLE_GUIDE)
        /\ MAX_EDITOR_ITERATIONS = k
        /\ research_brief = EmptyDict
        /\ initial_draft = <<>>
        /\ approved = FALSE
        /\ iteration = 0
        /\ feedback = EmptyDict
        /\ article = EmptyDict
        /\ report = EmptyDict
        /\ stages = <<>>
        /\ calls = <<>>
        /\ reviewed = <<>>
        /\ prompts = <<>>

\* A call of run_blog_pipeline under a key the service accepts
Init == \E key \in AcceptedKeys : Start(key, "start")

\* except Exception: ... sys.exit(1) (main.py:168-172)
Abort ==
    /\ pc' = "failed"
    /\ UNCHANGED <<apart, GOOGLE_API_KEY, topic, memory, MAX_EDITOR_ITERATIONS, research_brief, initial_draft,
                   approved, iteration, feedback, article, report, stages, reviewed, prompts>>

Call(name, out) == [call |-> name, ok |-> out.ok]

\* The entry of the meta-tag call, which keeps the response text too
MetaCall(out) == [call |-> "meta_tags", ok |-> out.ok,
                  text |-> IF out.ok THEN out.text ELSE <<>>]

\* Stage 1 (main.py:83)
Research ==
    /\ pc = "start"
    /\ \E out \in GroundedOutcomes :
         \E fallbackOut \in (IF out.ok THEN {out} ELSE Outcomes(ResearchTexts)) :
            \E r \in {research(topic, memory, out, fallbackOut)} :
                /\ calls' = calls \o <<Call("research", out)>>
                              \o (IF out.ok THEN <<>> ELSE <<Call("fallback_research", fallbackOut)>>)
                /\ IF r.raised THEN Abort
                   ELSE /\ research_brief' = r.value.brief
                        /\ memory' = r.value.memory
                        /\ stages' = Append(stages, "Research")
                        /\ pc' = "researched"
                        /\ UNCHANGED <<apart, GOOGLE_API_KEY, topic, MAX_EDITOR_ITERATIONS, initial_draft, approved,
                                       iteration, feedback, article, report, reviewed, prompts>>

\* Stage 2 (main.py:89-90)
Draft ==
    /\ pc = "researched"
    /\ \E out \in Outcomes(DraftTexts) :
         \E r \in {write_draft(memory, EmptyDict, out)} :
             /\ calls' = Append(calls, Call("draft", out))
             /\ IF r.raised THEN Abort
                ELSE /\ initial_draft' = r.value
                     /\ memory' = add_draft(memory, r.value)
                     /\ prompts' = Append(prompts, WriterPrompt(memory, EmptyDict))
                     /\ stages' = Append(stages, "Draft")
                     /\ pc' = "drafted"
                     /\ UNCHANGED <<apart, GOOGLE_API_KEY, topic, MAX_EDITOR_ITERATIONS, research_brief, approved,
                                    iteration, feedback, article, report, reviewed>>

\* Stage 3 (main.py:96-97), then the loop's locals (main.py:104-105)
Optimize ==
    /\ pc = "drafted"
    /\ \E kwOut \in Outcomes(KeywordTexts), optOut \in Outcomes(OptimizedTexts) :
         \E r \in {optimize(initial_draft, topic, memory, kwOut, optOut)} :
             /\ calls' = calls \o <<Call("keywords", kwOut), Call("optimize", optOut)>>
             /\ IF r.raised THEN Abort
                ELSE /\ memory' = add_draft(r.value.memory, r.value.draft)
                     /\ approved' = FALSE
                     /\ iteration' = 0
                     /\ stages' = Append(stages, "Optimize")
                     /\ pc' = "loop"
                     /\ UNCHANGED <<apart, GOOGLE_API_KEY, topic, MAX_EDITOR_ITERATIONS, research_brief,
                                    initial_draft, feedback, article, report, reviewed, prompts>>

\* Faulty variant: the loop stops one review early
LoopCondition_short(approved_, iteration_, max_iterations) ==
    ~approved_ /\ iteration_ + 1 < max_iterations

\* Faulty variant: an approval does not end the loop
LoopCondition_ignoring_approval(approved_, iteration_, max_iterations) ==
    iteration_ < max_iterations

\* The while condition (main.py:107)
LoopCondition(approved_, iteration_, max_iterations) ==
    ~approved_ /\ iteration_ < max_iterations

\* Faulty variant: every review is followed by a revision
AfterReview_always_revising(approved_) == "reviewed"

\* if not approved (main.py:114): a draft that is not approved goes to the
\* writer, an approved one back to the while condition
AfterReview(approved_) == IF approved_ THEN "loop" ELSE "reviewed"

\* One turn of the loop up to the review and the test of its verdict
\* (main.py:107-114): an approved draft goes back to the while condition
Review ==
    /\ pc = "loop"
    /\ LoopCondition(approved, iteration, MAX_EDITOR_ITERATIONS)
    /\ \E out \in Outcomes(ReviewTexts) :
         \E current_draft \in {get_latest_draft(memory)} :
         \E r \in {review(current_draft, memory, MAX_EDITOR_ITERATIONS, out)} :
             /\ calls' = Append(calls, Call("review", out))
             /\ IF r.raised THEN Abort
                ELSE /\ iteration' = iteration + 1
                     /\ approved' = r.value.approved
                     /\ feedback' = r.value.feedback
                     /\ memory' = r.value.memory
                     /\ reviewed' = Append(reviewed,
                            [draft     |-> current_draft,
                             drafts    |-> Len(memory.drafts),
                             before    |-> get_feedback_count(memory),
                             generated |-> out.ok,
                             text      |-> IF out.ok THEN out.text ELSE <<>>,
                             error     |-> IF out.ok THEN <<>> ELSE out.error,
                             approved  |-> r.value.approved,
                             feedback  |-> r.value.feedback])
                     /\ stages' = Append(stages, "Review")
                     /\ pc' = AfterReview(r.value.approved)
                     /\ UNCHANGED <<apart, GOOGLE_API_KEY, topic, MAX_EDITOR_ITERATIONS, research_brief,
                                    initial_draft, article, report, prompts>>

\* The revision of a draft that was not approved (main.py:114-118)
Revise ==
    /\ pc = "reviewed"
    /\ \E out \in Outcomes(DraftTexts) :
         \E r \in {write_draft(memory, feedback, out)} :
             /\ calls' = Append(calls, Call("revise", out))
             /\ IF r.raised THEN Abort
                ELSE /\ memory' = add_draft(memory, r.value)
                     /\ prompts' = Append(prompts, WriterPrompt(memory, feedback))
                     /\ stages' = Append(stages, "Revise")
                     /\ pc' = "loop"
                     /\ UNCHANGED <<apart, GOOGLE_API_KEY, topic, MAX_EDITOR_ITERATIONS, research_brief,
                                    initial_draft, approved, iteration, feedback, article, report,
                                    reviewed>>

\* Final assembly once the loop is left (main.py:125-143) and the editorial
\* report (main.py:164)
Assemble ==
    /\ pc = "loop"
    /\ ~LoopCondition(approved, iteration, MAX_EDITOR_ITERATIONS)
    /\ \E out \in Outcomes(MetaTexts) :
         \E final_draft \in {get_latest_draft(memory)}, seo_data \in {get_seo_data(memory)} :
         \E meta_tags \in {generate_meta_tags(final_draft, Get(seo_data, "keywords", <<>>),
                                               topic, out)} :
             /\ calls' = Append(calls, MetaCall(out))
             /\ IF meta_tags.raised THEN Abort
                ELSE /\ article' = format_output_article(final_draft,
                            [title    |-> Get(meta_tags.value, "title", topic),
                             date     |-> <<"2","0","2","5","-","1","1","-","2","9">>,
                             keywords |-> Get(seo_data, "keywords", <<>>),
                             sources  |-> Get(research_brief, "sources", <<>>)])
                     /\ report' = generate_final_report(memory)
                     /\ stages' = Append(stages, "Assemble")
                     /\ pc' = "done"
                     /\ UNCHANGED <<apart, GOOGLE_API_KEY, topic, memory, MAX_EDITOR_ITERATIONS, research_brief,
                                    initial_draft, approved, iteration, feedback, reviewed, prompts>>

Next == Research \/ Draft \/ Optimize \/ Review \/ Revise \/ Assemble

Spec == Init /\ [][Next]_vars

\* The run is one sequential thread: whenever a step is possible, one is taken
FairSpec == Spec /\ WF_vars(Next)

-----------------------------------------------------------------------------
(* src/main.py: main, the command line entry *)

\* validate_api_key (main.py:37-45): TRUE when it returns, FALSE when it
\* prints the configuration error and calls sys.exit(1)
validate_api_key(key) == ~(key = "" \/ key = "your_api_key_here")

\* The program started from the command line, under any configured key
MainInit == \E key \in Keys : Start(key, "main")

\* main up to its call of run_blog_pipeline (main.py:207-225)
ValidateApiKey ==
    /\ pc = "main"
    /\ pc' = IF validate_api_key(GOOGLE_API_KEY) THEN "start" ELSE "exit"
    /\ UNCHANGED <<apart, GOOGLE_API_KEY, topic, memory, MAX_EDITOR_ITERATIONS, research_brief,
                   initial_draft, approved, iteration, feedback, article, report, stages, calls,
                   reviewed, prompts>>

MainNext == ValidateApiKey \/ Next

MainSpec == MainInit /\ [][MainNext]_vars

-----------------------------------------------------------------------------
(* A call of EditorAgent._parse_review on its own (editor.py:134-171) *)

\* Largest number of lines of a review text the parser is called with.
MaxReviewLines == 3

\* The pipeline variables, and their values while no run is going on
pipeline == <<GOOGLE_API_KEY, pc, topic, memory, MAX_EDITOR_ITERATIONS, research_brief,
              initial_draft, approved, iteration, feedback, article, report, stages, calls,
              reviewed, prompts>>

ConfigOnly(key, k) ==
    /\ GOOGLE_API_KEY = key
    /\ pc = "off"
    /\ topic = <<>>
    /\ memory = MemoryBank(DEFAULT_STYLE_GUIDE)
    /\ MAX_EDITOR_ITERATIONS = k
    /\ research_brief = EmptyDict
    /\ initial_draft = <<>>
    /\ approved = FALSE
    /\ iteration = 0
    /\ feedback = EmptyDict
    /\ article = EmptyDict
    /\ report = EmptyDict
    /\ stages = <<>>
    /\ calls = <<>>
    /\ reviewed = <<>>
    /\ prompts = <<>>

PipelineOff == ConfigOnly("", 0)

\* The lines a review text is made of: "SCORE: 8.5/10", "SCORE: n/a",
\* "SCORE: 7", the three section headers, "- too short", " - b ",
\* "no recognizable sections" and the empty line
ReviewLines ==
    { <<"S","C","O","R","E",":"," ","8",".","5","/","1","0">>,
      <<"S","C","O","R","E",":"," ","n","/","a">>,
      <<"S","C","O","R","E",":"," ","7">>,
      <<"I","S","S","U","E","S",":">>,
      <<"S","U","G","G","E","S","T","I","O","N","S",":">>,
      <<"S","T","R","E","N","G","T","H","S",":">>,
      <<"-"," ","t","o","o"," ","s","h","o","r","t">>,
      <<" ","-"," ","b"," ">>,
      <<"n","o"," ","r","e","c","o","g","n","i","z","a","b","l","e"," ","s","e","c","t","i","o","n","s">>,
      <<>> }

\* '\n'.join(lines)
RECURSIVE JoinLines(_)
JoinLines(lines) ==
    IF Len(lines) = 1 THEN lines[1]
    ELSE lines[1] \o <<"\n">> \o JoinLines(Tail(lines))

\* The line lists and the review texts the parser is called with
ReviewLineLists == UNION {[1..n -> ReviewLines] : n \in 1..MaxReviewLines}

ParserInputs == {JoinLines(ls) : ls \in ReviewLineLists}

ParserInit ==
    /\ PipelineOff /\ RunsOff /\ BankOff /\ ScorerOff
    /\ response_text \in ParserInputs
    /\ parsed = EmptyDict

\* feedback = self._parse_review(review_text) (editor.py:119-121)
ParseReview ==
    /\ pc = "off"
    /\ DOMAIN parsed = {}
    /\ parsed' = Return(_parse_review(response_text))
    /\ UNCHANGED <<response_text, pipeline, runs, bankVars, scorerVars>>

ParserNext == ParseReview

ParserSpec == ParserInit /\ [][ParserNext]_vars

-----------------------------------------------------------------------------
(* Two calls of run_blog_pipeline whose steps are interleaved *)

RunIds == {1, 2}

\* The locals of a call that has just created its memory and its agents
\* (main.py:70-76)
NewRun(inv) ==
    [pc            |-> "start",
     topic         |-> inv.topic,
     memory        |-> MemoryBank(IF inv.style_guide # <<>> THEN inv.style_guide
                                  ELSE DEFAULT_STYLE_GUIDE),
     initial_draft |-> <<>>,
     approved      |-> FALSE,
     iteration     |-> 0,
     feedback      |-> EmptyDict]

\* Faulty variant: every call works on the memory of the first call
MemoryOfRun_shared(rs, r) == rs[1].memory

\* The memory the steps of call r work on: its own local (main.py:70)
MemoryOfRun(rs, r) == rs[r].memory

\* Call r is the one for topic "AI" when r = 1, for topic "ml" otherwise
InvocationOf(r) ==
    CHOOSE inv \in Invocations : (inv.topic = <<"A","I">>) <=> (r = 1)

\* Two calls, one per invocation, under an accepted key and the budget 2
ConcurrentInit ==
    /\ \E key \in AcceptedKeys : ConfigOnly(key, 2)
    /\ ParserOff /\ BankOff /\ ScorerOff
    /\ runs = [r \in RunIds |-> NewRun(InvocationOf(r))]

\* What the generation calls of interleaved runs may do: each call fails or
\* answers with one text, and the two calls of a stage fail together
ConcurrentDraftTexts == { <<"#","#"," ","H","\n","\n","p"," ","q","\n","\n","-"," ","b">> }

ConcurrentReviewTexts ==
    { <<"S","C","O","R","E",":"," ","3",".","5","/","1","0","\n","I","S","S","U","E","S",":","\n","-"," ","d","u","l","l">> }

\* Call r goes on as `next`, or is left by an exception
Continue(r, result, next) ==
    /\ runs' = [runs EXCEPT ![r] = IF result.raised THEN [@ EXCEPT !.pc = "failed"]
                                   ELSE next]
    /\ UNCHANGED <<pipeline, parserVars, bankVars, scorerVars>>

\* Stage 1 of call r (main.py:83)
RunResearch(r) ==
    /\ runs[r].pc = "start"
    /\ \E out \in GroundedOutcomes :
         \E fallbackOut \in {out} :
            \E res \in {research(runs[r].topic, MemoryOfRun(runs, r), out, fallbackOut)} :
                Continue(r, res, [runs[r] EXCEPT !.memory = res.value.memory,
                                                 !.pc = "researched"])

\* Stage 2 of call r (main.py:89-90)
RunDraft(r) ==
    /\ runs[r].pc = "researched"
    /\ \E out \in Outcomes(ConcurrentDraftTexts) :
         \E res \in {write_draft(MemoryOfRun(runs, r), EmptyDict, out)} :
             Continue(r, res, [runs[r] EXCEPT
                                  !.initial_draft = res.value,
                                  !.memory = add_draft(MemoryOfRun(runs, r), res.value),
                                  !.pc = "drafted"])

\* Stage 3 of call r (main.py:96-105)
RunOptimize(r) ==
    /\ runs[r].pc = "drafted"
    /\ \E kwOut \in Outcomes(KeywordTexts), optOut \in Outcomes(OptimizedTexts) :
         LET res == optimize(runs[r].initial_draft, runs[r].topic, MemoryOfRun(runs, r),
                             kwOut, optOut)
         IN  /\ kwOut.ok = optOut.ok
             /\ Continue(r, res, [runs[r] EXCEPT
                                  !.memory = add_draft(res.value.memory, res.value.draft),
                                  !.approved = FALSE,
                                  !.iteration = 0,
                                  !.pc = "loop"])

\* One review of call r (main.py:107-114)
RunReview(r) ==
    /\ runs[r].pc = "loop"
    /\ LoopCondition(runs[r].approved, runs[r].iteration, MAX_EDITOR_ITERATIONS)
    /\ \E out \in Outcomes(ConcurrentReviewTexts) :
         LET m   == MemoryOfRun(runs, r)
             res == review(get_latest_draft(m), m, MAX_EDITOR_ITERATIONS, out)
         IN  Continue(r, res, [runs[r] EXCEPT
                                  !.iteration = @ + 1,
                                  !.approved = res.value.approved,
                                  !.feedback = res.value.feedback,
                                  !.memory = res.value.memory,
                                  !.pc = AfterReview(res.value.approved)])

\* One revision of call r (main.py:114-118)
RunRevise(r) ==
    /\ runs[r].pc = "reviewed"
    /\ \E out \in Outcomes(ConcurrentDraftTexts) :
         \E res \in {write_draft(MemoryOfRun(runs, r), runs[r].feedback, out)} :
             Continue(r, res, [runs[r] EXCEPT
                                  !.memory = add_draft(MemoryOfRun(runs, r), res.value),
                                  !.pc = "loop"])

\* Call r leaves the loop (main.py:125-143)
RunAssemble(r) ==
    /\ runs[r].pc = "loop"
    /\ ~LoopCondition(runs[r].approved, runs[r].iteration, MAX_EDITOR_ITERATIONS)
    /\ Continue(r, Return(TRUE), [runs[r] EXCEPT !.pc = "done"])

ConcurrentNext ==
    \E r \in RunIds :
        \/ RunResearch(r)
        \/ RunDraft(r)
        \/ RunOptimize(r)
        \/ RunReview(r)
        \/ RunRevise(r)
        \/ RunAssemble(r)

ConcurrentSpec == ConcurrentInit /\ [][ConcurrentNext]_vars

-----------------------------------------------------------------------------
(* src/memory.py: one MemoryBank and the methods called on it *)

MaxBankEntries == 2

BankStyleGuides == {DEFAULT_STYLE_GUIDE, <<"f", "u", "n">>}

BankDicts == {[topic |-> <<"A", "I">>], [topic |-> <<"g", "o">>]}

BankDrafts == {<<"d", "1">>, <<"d", "2">>}

BankFeedback == {[iteration |-> 1, score |-> 350], [iteration |-> 2, score |-> 900]}

BankInit ==
    /\ PipelineOff /\ ParserOff /\ RunsOff /\ ScorerOff
    /\ \E style_guide \in BankStyleGuides : bank = MemoryBank(style_guide)
    /\ last_call = [method |-> "__init__", self |-> EmptyDict]

\* One method call: the memory after it, and the call with the memory it found
BankCall(name, m) ==
    /\ bank' = m
    /\ last_call' = [method |-> name, self |-> bank]
    /\ UNCHANGED <<pipeline, parserVars, runs, scorerVars>>

StoreResearch == \E data \in BankDicts : BankCall("store_research", store_research(bank, data))

AddDraft ==
    /\ Len(bank.drafts) < MaxBankEntries
    /\ \E draft \in BankDrafts : BankCall("add_draft", add_draft(bank, draft))

StoreSeoData == \E data \in BankDicts : BankCall("store_seo_data", store_seo_data(bank, data))

AddEditorFeedback ==
    /\ Len(bank.editor_feedback) < MaxBankEntries
    /\ \E fb \in BankFeedback : BankCall("add_editor_feedback", add_editor_feedback(bank, fb))

Clear == BankCall("clear", clear(bank))

BankNext == StoreResearch \/ AddDraft \/ StoreSeoData \/ AddEditorFeedback \/ Clear

BankSpec == BankInit /\ [][BankNext]_vars

-----------------------------------------------------------------------------
(* The heuristic score of a draft, with and without its headers *)

MaxDraftLines == 4

\* "## H", "### S", "p q", "", "- b", "w x y z"
DraftLines ==
    { <<"#","#"," ","H">>, <<"#","#","#"," ","S">>, <<"p"," ","q">>, <<>>,
      <<"-"," ","b">>, <<"w"," ","x"," ","y"," ","z">> }

DraftLineLists == UNION {[1..n -> DraftLines] : n \in 1..MaxDraftLines}

ScorerInputs == {JoinLines(ls) : ls \in DraftLineLists}

IsHeader(line) == StartsWith(line, <<"#","#">>)

\* The header marker of a line and the blanks after it
RECURSIVE HeaderMark(_)
HeaderMark(line) ==
    IF line # <<>> /\ Head(line) \in {"#", " "} THEN <<Head(line)>> \o HeaderMark(Tail(line))
    ELSE <<>>

\* A header line is dropped whole ("lines"), blanked ("blank") or keeps its
\* title as plain text ("marks")
RECURSIVE StripLines(_, _)
StripLines(lines, how) ==
    IF lines = <<>> THEN <<>>
    ELSE (IF ~IsHeader(Head(lines)) THEN <<Head(lines)>>
          ELSE IF how = "lines" THEN <<>>
          ELSE IF how = "blank" THEN << <<>> >>
          ELSE <<From(Head(lines), Len(HeaderMark(Head(lines))) + 1)>>)
         \o StripLines(Tail(lines), how)

\* The draft without its ## and ### headers
StripHeaders(text, how) ==
    LET kept == StripLines(Split(text, "\n"), how)
    IN  IF kept = <<>> THEN <<>> ELSE JoinLines(kept)

ScorerInit ==
    /\ PipelineOff /\ ParserOff /\ RunsOff /\ BankOff
    /\ draft_text \in ScorerInputs
    /\ scored = EmptyDict

\* basic_score = calculate_quality_score(draft)
ScoreDraft ==
    /\ scored = EmptyDict
    /\ scored' = [draft |-> draft_text, basic_score |-> calculate_quality_score(draft_text)]
    /\ UNCHANGED <<draft_text, pipeline, parserVars, runs, bankVars>>

\* The headers are taken out of the scored draft and what is left is scored
ScoreStripped ==
    /\ DOMAIN scored = {"draft", "basic_score"}
    /\ \E how \in {"lines", "blank", "marks"} :
          /\ draft_text' = StripHeaders(draft_text, how)
          /\ scored' = [draft |-> scored.draft, basic_score |-> scored.basic_score,
                        stripped |-> calculate_quality_score(draft_text')]
    /\ UNCHANGED <<pipeline, parserVars, runs, bankVars>>

ScorerNext == ScoreDraft \/ ScoreStripped

ScorerSpec == ScorerInit /\ [][ScorerNext]_vars

-----------------------------------------------------------------------------
(* Properties *)

\* a is a prefix of b: b is a with entries appended at the end
IsPrefix(a, b) == Len(a) <= Len(b) /\ SubSeq(b, 1, Len(a)) = a

\* The combined score of the i-th review of the run
ScoreOfReview(i) == reviewed[i].feedback.score

\* The number of times a stage has run
Runs(stage) == Cardinality({i \in DOMAIN stages : stages[i] = stage})

AllReviewsBelowThreshold ==
    \A i \in DOMAIN reviewed : ScoreOfReview(i) < QUALITY_THRESHOLD

AllCallsFailed == \A i \in DOMAIN calls : ~calls[i].ok

\* C1: with K >= 1 a run makes at most K calls of EditorAgent.review, and when
\* the run has reached final assembly it has made at least one and the last
\* one returned approved = true.
C1_Termination ==
    MAX_EDITOR_ITERATIONS >= 1 =>
        /\ Len(reviewed) <= MAX_EDITOR_ITERATIONS
        /\ pc = "done" => /\ reviewed # <<>>
                          /\ reviewed[Len(reviewed)].approved

\* A run with K = 3 whose first two reviews rejected the draft and whose third
\* was approved below the threshold
C1_Witness ==
    /\ pc = "done"
    /\ MAX_EDITOR_ITERATIONS = 3
    /\ Len(reviewed) = 3
    /\ ~reviewed[1].approved /\ ~reviewed[2].approved /\ reviewed[3].approved
    /\ ScoreOfReview(3) < QUALITY_THRESHOLD

\* C2: when every review of a finished run scored below the threshold, the
\* run made exactly K reviews, the K-th returned approved = true, and no
\* revision followed it (K - 1 revisions, the review being the last stage
\* before final assembly).
C2_ForcedApproval ==
    (pc = "done" /\ AllReviewsBelowThreshold) =>
        /\ Len(reviewed) = MAX_EDITOR_ITERATIONS
        /\ MAX_EDITOR_ITERATIONS >= 1 =>
              /\ reviewed[MAX_EDITOR_ITERATIONS].approved
              /\ \A i \in 1..(MAX_EDITOR_ITERATIONS - 1) : ~reviewed[i].approved
              /\ Runs("Revise") = MAX_EDITOR_ITERATIONS - 1
              /\ stages[Len(stages) - 1] = "Review"

\* A finished run with K = 2 and two reviews, both below the threshold
C2_Witness ==
    /\ pc = "done"
    /\ MAX_EDITOR_ITERATIONS = 2
    /\ Len(reviewed) = 2
    /\ AllReviewsBelowThreshold

\* C3: every review returned approved = true exactly when its combined score
\* was at least the threshold or its iteration number (the feedback records
\* before the call, plus one) was at least K.
C3_ApprovalRule ==
    \A i \in DOMAIN reviewed :
        reviewed[i].approved <=>
            \/ ScoreOfReview(i) >= QUALITY_THRESHOLD
            \/ reviewed[i].before + 1 >= MAX_EDITOR_ITERATIONS

\* A rejected first review followed by a second one approved on its score
\* with budget left
C3_Witness ==
    /\ Len(reviewed) = 2
    /\ MAX_EDITOR_ITERATIONS = 3
    /\ ~reviewed[1].approved
    /\ reviewed[2].approved
    /\ ScoreOfReview(2) >= QUALITY_THRESHOLD

\* C4: whichever generation calls fail, the run is never aborted and reaches
\* final assembly: no state is the aborted one, every state short of final
\* assembly has a next step, every step runs one more stage, and a run has at
\* most 2 K + 4 stages (Research, Draft, Optimize, K reviews, K revisions and
\* the assembly), so the steps end, and they end at final assembly.
C4_AlwaysReachesDone ==
    /\ [](/\ pc # "failed"
          /\ pc = "done" \/ ENABLED Next
          /\ Len(stages) <= 2 * MAX_EDITOR_ITERATIONS + 4)
    /\ [][Len(stages') = Len(stages) + 1]_vars

\* A finished run in which a review call and a revision call failed
C4_Witness ==
    /\ pc = "done"
    /\ \E i \in DOMAIN calls : calls[i].call = "review" /\ ~calls[i].ok
    /\ \E i \in DOMAIN calls : calls[i].call = "revise" /\ ~calls[i].ok
    /\ \E i \in DOMAIN calls : calls[i].ok

\* What a finished run leaves when it is usable: a research brief with
\* findings in memory, the placeholder draft as the published body, keywords
ArtifactFromFallbacks ==
    /\ DOMAIN memory.research_data # {}
    /\ memory.research_data.findings # <<>>
    /\ get_latest_draft(memory) # <<>>
    /\ \E e \in Errors : get_latest_draft(memory) = PlaceholderDraft(topic, e)
    /\ DOMAIN article # {}
    /\ article.body = get_latest_draft(memory)
    /\ article.metadata.keywords # <<>>
    /\ memory.seo_data.keywords # <<>>

\* C5: when every generation call so far has failed the run has not been
\* aborted and, short of final assembly, goes on (C4 bounds its steps); at
\* final assembly it has a non-empty research brief in memory, the non-empty
\* placeholder draft as final draft and a non-empty keyword list.
C5_AllCallsFail ==
    AllCallsFailed =>
        /\ pc # "failed"
        /\ pc = "done" \/ ENABLED Next
        /\ pc = "done" => ArtifactFromFallbacks

\* A finished run with K >= 2 in which every call failed, revisions included
C5_Witness ==
    /\ pc = "done"
    /\ AllCallsFailed
    /\ MAX_EDITOR_ITERATIONS >= 2
    /\ \E i \in DOMAIN calls : calls[i].call = "revise"

\* C6: every step leaves the drafts and the feedback history it found as a
\* prefix of the new ones: entries are only appended, none is removed, moved
\* or changed.
C6_AppendOnly ==
    [][/\ IsPrefix(memory.drafts, memory'.drafts)
       /\ IsPrefix(memory.editor_feedback, memory'.editor_feedback)]_vars

\* A state with four drafts and three feedback records
C6_Witness ==
    /\ Len(memory.drafts) = 4
    /\ Len(memory.editor_feedback) = 3

\* C7: once the Draft stage has completed drafts is not empty, and the
\* feedback history never holds more than K + 1 records.
C7_HistoryBounds ==
    /\ pc \in {"drafted", "loop", "reviewed", "done"} => memory.drafts # <<>>
    /\ Len(memory.editor_feedback) <= MAX_EDITOR_ITERATIONS + 1

\* The Draft stage has just completed, and: a finished run with K records
C7_Witness ==
    \/ pc = "drafted" /\ Len(memory.drafts) = 1 /\ MAX_EDITOR_ITERATIONS = 0
    \/ /\ pc = "done"
       /\ MAX_EDITOR_ITERATIONS = 3
       /\ Len(memory.editor_feedback) = MAX_EDITOR_ITERATIONS

\* C8: at final assembly with K >= 1 there are n >= 1 feedback records and
\* n + 1 drafts; a first review below the threshold followed by a second at
\* or above it leaves exactly 2 feedback records and 3 drafts.
C8_Counts ==
    (pc = "done" /\ MAX_EDITOR_ITERATIONS >= 1) =>
        /\ Len(memory.editor_feedback) >= 1
        /\ Len(memory.drafts) = Len(memory.editor_feedback) + 1
        /\ (/\ Len(reviewed) >= 2
            /\ ScoreOfReview(1) < QUALITY_THRESHOLD
            /\ ScoreOfReview(2) >= QUALITY_THRESHOLD)
           => /\ Len(memory.editor_feedback) = 2
              /\ Len(memory.drafts) = 3

\* The end-to-end scenario: K = 3, review 1 below and review 2 above 7.0
C8_Witness ==
    /\ pc = "done"
    /\ MAX_EDITOR_ITERATIONS = 3
    /\ Len(reviewed) >= 2
    /\ ScoreOfReview(1) < QUALITY_THRESHOLD
    /\ ScoreOfReview(2) >= QUALITY_THRESHOLD
    /\ Len(memory.drafts) = 3

\* C9: the stages run in the order Research, Draft, Optimize, then the review
\* loop, each of the first three once; each has left its result in memory
\* when the next starts; the first Review runs on the optimized draft, the
\* second entry of drafts.
C9_StageOrder ==
    /\ \A i \in DOMAIN stages :
          /\ i = 1 => stages[i] = "Research"
          /\ i = 2 => stages[i] = "Draft"
          /\ i = 3 => stages[i] = "Optimize"
          /\ i = 4 => stages[i] \in {"Review", "Assemble"}
          /\ i > 4 => stages[i] \in {"Review", "Revise", "Assemble"}
    /\ pc = "start" => stages = <<>> /\ DOMAIN memory.research_data = {}
    /\ pc = "researched" =>
          /\ stages = <<"Research">>
          /\ DOMAIN memory.research_data # {}
          /\ memory.drafts = <<>>
    /\ pc = "drafted" =>
          /\ stages = <<"Research", "Draft">>
          /\ Len(memory.drafts) = 1
          /\ DOMAIN memory.seo_data = {}
    /\ pc \in {"loop", "reviewed", "done"} =>
          /\ DOMAIN memory.seo_data # {}
          /\ Len(memory.drafts) >= 2
    /\ reviewed # <<>> =>
          /\ reviewed[1].drafts = 2
          /\ reviewed[1].draft = memory.drafts[2]

\* A run whose only review approved the optimized draft
C9_Witness ==
    /\ stages = <<"Research", "Draft", "Optimize", "Review", "Assemble">>
    /\ reviewed[1].draft # initial_draft

\* The i-th review's generation call failed
ReviewCallFailed(i) == ~reviewed[i].generated

\* The issue that names the failure e of a review call
IssueNaming(e) == <<"R","e","v","i","e","w"," ","e","r","r","o","r",":"," ">> \o e

C11_Original ==
    \A i \in DOMAIN reviewed :
        (ReviewCallFailed(i) /\ reviewed[i].before + 1 < MAX_EDITOR_ITERATIONS) =>
            /\ ~reviewed[i].approved
            /\ i = Len(reviewed) => pc \in {"reviewed", "loop"} /\ ~approved

\* A failed review with budget left that approved a draft of heuristic score
\* 10.0 on the combined score (10.0 + 6.0) / 2 = 8.0
C11_Witness ==
    \E i \in DOMAIN reviewed :
        /\ ReviewCallFailed(i)
        /\ reviewed[i].before + 1 < MAX_EDITOR_ITERATIONS
        /\ calculate_quality_score(reviewed[i].draft) = 1000
        /\ ScoreOfReview(i) = 800
        /\ reviewed[i].approved

\* The LLM score of a logged review: the one parsed from the generated text,
\* or the 6.0 of the failure record when the call failed
LLMScore(rec) ==
    IF rec.generated THEN _parse_review(rec.text).score
    ELSE ReviewErrorFeedback(rec.error).score

LLMScoreOfReview(i) == LLMScore(reviewed[i])

\* C12: every Review step appends to the feedback history one record whose
\* score is the unweighted average of the heuristic score of the draft it
\* reviewed (the latest one) and the LLM score of that review, leaving the
\* earlier records as they are; that average (not the LLM score) is what is
\* compared with the threshold: a review with budget left approves exactly
\* when the average reaches 7.0.
C12_AverageScore ==
    [][Len(reviewed') = Len(reviewed) + 1 =>
         LET i   == Len(reviewed')
             rec == reviewed'[i]
             sum == calculate_quality_score(rec.draft) + LLMScore(rec)
         IN  /\ rec.draft = get_latest_draft(memory)
             /\ memory'.editor_feedback = Append(memory.editor_feedback, rec.feedback)
             /\ Len(memory'.editor_feedback) = i
             /\ 2 * memory'.editor_feedback[i].score = sum
             /\ i < MAX_EDITOR_ITERATIONS =>
                   (approved' <=> sum >= 2 * QUALITY_THRESHOLD)]_vars

\* A generated review with LLM score 9.0 of an empty draft (heuristic 0.0):
\* the record holds 4.5 and the draft is rejected although 9.0 >= 7.0
C12_Witness ==
    \E i \in DOMAIN reviewed :
        /\ reviewed[i].generated
        /\ LLMScoreOfReview(i) = 900
        /\ calculate_quality_score(reviewed[i].draft) = 0
        /\ memory.editor_feedback[i].score = 450
        /\ reviewed[i].before + 1 < MAX_EDITOR_ITERATIONS
        /\ ~reviewed[i].approved

\* C13: the iteration field of every feedback record is at least 1 and is
\* the record's 1-based position in the feedback history; the controller's
\* counter starts at 0 before the first review, each Review step raises it by
\* exactly one, and after each Review it equals the length of the feedback
\* history.
C13_LoopCounter ==
    /\ [](/\ \A i \in DOMAIN memory.editor_feedback :
                /\ memory.editor_feedback[i].iteration >= 1
                /\ memory.editor_feedback[i].iteration = i
          /\ pc \in {"loop", "reviewed", "done"} =>
                iteration = Len(memory.editor_feedback)
          /\ (pc = "reviewed" \/ reviewed # <<>>) =>
                /\ iteration >= 1
                /\ feedback.iteration = iteration)
    /\ [][/\ Len(reviewed') = Len(reviewed) + 1 => iteration' = iteration + 1
          /\ Len(reviewed') = Len(reviewed) => iteration' = iteration]_vars

\* After the third review of a run: three records, numbered 1, 2, 3
C13_Witness ==
    /\ Len(reviewed) = 3
    /\ iteration = 3
    /\ Len(memory.editor_feedback) = 3
    /\ memory.editor_feedback[3].iteration = 3

\* The grounded research call of the run failed
GroundedCallFailed == calls # <<>> /\ calls[1].call = "research" /\ ~calls[1].ok

\* The number of fallback research calls made so far
FallbackCalls == Cardinality({i \in DOMAIN calls : calls[i].call = "fallback_research"})

\* The grounded call and the fallback call both failed
BothResearchCallsFailed ==
    /\ GroundedCallFailed
    /\ Len(calls) >= 2
    /\ calls[2].call = "fallback_research"
    /\ ~calls[2].ok

\* C14: when the grounded research call fails Research makes exactly one
\* fallback call; when that fails too the run is not aborted, and the brief
\* stored in memory and returned to the controller is a placeholder whose
\* findings contain the failure reason.
C14_Original ==
    /\ GroundedCallFailed => FallbackCalls = 1
    /\ BothResearchCallsFailed =>
          /\ pc # "failed"
          /\ DOMAIN memory.research_data # {}
          /\ memory.research_data = research_brief
          /\ \E e \in Errors : Contains(memory.research_data.findings, e)

\* A finished run whose two research calls failed: the stored brief is the
\* fixed placeholder text about the topic, without the failure reason
C14_Witness ==
    /\ pc = "done"
    /\ BothResearchCallsFailed
    /\ FallbackCalls = 1
    /\ memory.research_data = PlaceholderBrief(topic)
    /\ research_brief = PlaceholderBrief(topic)
    /\ \A e \in Errors : ~Contains(memory.research_data.findings, e)

\* The generation call of the Draft stage failed
DraftCallFailed == \E i \in DOMAIN calls : calls[i].call = "draft" /\ ~calls[i].ok

\* The step being taken is a Revise whose generation call failed
FailedReviseStep ==
    /\ Len(calls') = Len(calls) + 1
    /\ calls'[Len(calls')].call = "revise"
    /\ ~calls'[Len(calls')].ok

\* C15: when the generation call of the Draft stage fails, the draft it
\* returns and stores is the placeholder naming the topic and containing the
\* error; a Revise step whose generation call fails appends one entry equal
\* to the latest draft before it, which is the draft that was just reviewed.
C15_DraftFailure ==
    /\ [](DraftCallFailed =>
            /\ \E e \in Errors : /\ initial_draft = PlaceholderDraft(topic, e)
                                 /\ Contains(initial_draft, e)
            /\ memory.drafts[1] = initial_draft)
    /\ [][FailedReviseStep =>
            /\ Len(memory'.drafts) = Len(memory.drafts) + 1
            /\ get_latest_draft(memory') = get_latest_draft(memory)
            /\ get_latest_draft(memory') = reviewed[Len(reviewed)].draft]_vars

\* After a failed Draft, a generated rewrite, a rejecting review and a failed
\* Revise: the latest draft is again the reviewed one, unlike the placeholder
C15_Witness ==
    /\ DraftCallFailed
    /\ pc = "loop"
    /\ calls[Len(calls)].call = "revise"
    /\ ~calls[Len(calls)].ok
    /\ Len(memory.drafts) = 3
    /\ memory.drafts[3] = memory.drafts[2]
    /\ memory.drafts[3] = reviewed[Len(reviewed)].draft
    /\ memory.drafts[3] # memory.drafts[1]

\* The keyword identification call of the Optimize stage failed
KeywordCallFailed == \E i \in DOMAIN calls : calls[i].call = "keywords" /\ ~calls[i].ok

\* The fallback keyword list with t as primary keyword
FallbackKeywords(t) ==
    << t, <<"b","l","o","g">>, <<"g","u","i","d","e">>, <<"t","u","t","o","r","i","a","l">> >>

\* C16 as stated: when keyword identification fails the stored SEO data has
\* as keywords the topic followed by "blog", "guide", "tutorial".
C16_Original ==
    (KeywordCallFailed /\ DOMAIN memory.seo_data # {}) =>
        memory.seo_data.keywords = FallbackKeywords(topic)

\* C16: when keyword identification fails the stored SEO data has as
\* keywords the lower-cased topic followed by "blog", "guide", "tutorial".
C16_FallbackKeywords ==
    (KeywordCallFailed /\ pc \in {"loop", "reviewed", "done"}) =>
        /\ DOMAIN memory.seo_data # {}
        /\ memory.seo_data.keywords = FallbackKeywords(Lower(topic))
        /\ memory.seo_data.keywords[1] \in {<<"a","i">>, <<"m","l">>}

\* The topic "AI" with a failed keyword call: the primary keyword is "ai"
C16_Witness ==
    /\ KeywordCallFailed
    /\ topic = <<"A","I">>
    /\ DOMAIN memory.seo_data # {}
    /\ memory.seo_data.keywords[1] = <<"a","i">>
    /\ memory.seo_data.keywords[1] # topic
    /\ Len(memory.seo_data.keywords) = 4

\* The content rewrite call of the Optimize stage failed
RewriteCallFailed == \E i \in DOMAIN calls : calls[i].call = "optimize" /\ ~calls[i].ok

\* The Optimize stage has just completed
OptimizeCompleted == stages = <<"Research", "Draft", "Optimize">>

\* C17: when the Optimize stage has completed drafts has exactly two entries,
\* whether the content rewrite succeeded or failed; when it failed the second
\* entry is the first one, the draft of the Draft stage, and it stays so.
C17_AppendPolicy ==
    /\ OptimizeCompleted => Len(memory.drafts) = 2
    /\ (RewriteCallFailed /\ pc \in {"loop", "reviewed", "done"}) =>
          /\ memory.drafts[2] = memory.drafts[1]
          /\ memory.drafts[2] = initial_draft

\* The Optimize stage has just completed with a failed rewrite of a generated
\* non-empty draft
C17_Witness ==
    /\ OptimizeCompleted
    /\ RewriteCallFailed
    /\ Len(memory.drafts) = 2
    /\ memory.drafts[1] # <<>>
    /\ memory.drafts[2] = memory.drafts[1]
    /\ \E i \in DOMAIN calls : calls[i].call = "draft" /\ calls[i].ok

\* C18: the SEO data of the memory changes in one step only, the Optimize
\* stage, which replaces the empty record by a whole record of keywords,
\* topic and optimized; from then on it is in memory and no Review or Revise
\* changes it, and the keywords of the assembled article are the ones stored.
C18_SeoWrittenOnce ==
    /\ [](pc \in {"loop", "reviewed", "done"} =>
            DOMAIN memory.seo_data = {"keywords", "topic", "optimized"})
    /\ [][/\ memory'.seo_data # memory.seo_data =>
                /\ pc = "drafted" /\ pc' = "loop"
                /\ DOMAIN memory.seo_data = {}
                /\ DOMAIN memory'.seo_data = {"keywords", "topic", "optimized"}
          /\ pc' = "done" =>
                /\ article'.metadata.keywords = memory.seo_data.keywords
                /\ memory'.seo_data = memory.seo_data]_vars

\* A finished run with a generated revision whose article carries the
\* keywords generated at the Optimize stage
C18_Witness ==
    /\ pc = "done"
    /\ \E i \in DOMAIN calls : calls[i].call = "revise" /\ calls[i].ok
    /\ \E i \in DOMAIN calls : calls[i].call = "keywords" /\ calls[i].ok
    /\ memory.seo_data.keywords = << <<"a","i">>, <<"b","o","t","s">> >>
    /\ article.metadata.keywords = memory.seo_data.keywords
    /\ get_latest_draft(memory) # memory.drafts[1]

\* C19: the research data of the memory changes in one step only, the
\* Research stage, which stores the brief it returns in the empty memory; in
\* every later state the memory holds that same brief: Draft, Optimize,
\* Review, Revise and the final assembly leave it as it is.
C19_ResearchStoredOnce ==
    /\ [](pc # "start" =>
            /\ DOMAIN memory.research_data # {}
            /\ memory.research_data = research_brief
            /\ memory.research_data.topic = topic)
    /\ [][/\ memory'.research_data # memory.research_data =>
                /\ pc = "start" /\ pc' = "researched"
                /\ DOMAIN memory.research_data = {}
          /\ pc # "start" => research_brief' = research_brief]_vars

\* A finished run with two reviews and a revision whose memory still holds
\* the brief of the grounded research call, sources included
C19_Witness ==
    /\ pc = "done"
    /\ Len(reviewed) >= 2
    /\ Runs("Revise") >= 1
    /\ calls[1].call = "research" /\ calls[1].ok
    /\ memory.research_data = research_brief
    /\ memory.research_data.sources # <<>>
    /\ article.metadata.sources = memory.research_data.sources

\* The configured key is missing, the placeholder, or one the service rejects
CredentialsUnusable == GOOGLE_API_KEY \notin AcceptedKeys

\* C20: under a key that is missing or that the service does not accept the
\* program stops at the configuration check: no pipeline stage runs and no
\* generation call is made.
C20_Original ==
    CredentialsUnusable =>
        /\ stages = <<>>
        /\ calls = <<>>
        /\ pc \in {"main", "exit", "start"}

\* A finished run under a rejected key: the configuration check let it
\* through, every generation call failed and every stage used its fallback
C20_Witness ==
    /\ GOOGLE_API_KEY = "revoked"
    /\ pc = "done"
    /\ stages = <<"Research", "Draft", "Optimize", "Review", "Revise", "Review", "Assemble">>
    /\ AllCallsFailed
    /\ memory.research_data = PlaceholderBrief(topic)
    /\ \E e \in AuthErrors : article.body = PlaceholderDraft(topic, e)

\* What the configuration check does catch: a key that is not set or is the
\* placeholder ends the program before the pipeline starts
C20_MissingKeyStops ==
    ~validate_api_key(GOOGLE_API_KEY) =>
        /\ pc \in {"main", "exit"}
        /\ stages = <<>>
        /\ calls = <<>>

-----------------------------------------------------------------------------
(* Properties of the parser called on its own *)

\* The call of _parse_review has returned or raised
Parsed == DOMAIN parsed # {}

\* The lines of the text, stripped as the parser strips them
StrippedLines ==
    LET lines == Split(response_text, "\n")
    IN  [i \in DOMAIN lines |-> Strip(lines[i])]

IsScoreLine(line) == StartsWith(line, <<"S","C","O","R","E",":">>)

IsHeaderLine(line) ==
    line \in { <<"I","S","S","U","E","S",":">>,
               <<"S","U","G","G","E","S","T","I","O","N","S",":">>,
               <<"S","T","R","E","N","G","T","H","S",":">> }

IsItemLine(line) == StartsWith(line, <<"-"," ">>)

\* The record _parse_review starts from
DefaultRecord == [score |-> 500, issues |-> <<>>, suggestions |-> <<>>, strengths |-> <<>>]

\* C21: a call of _parse_review never raises and always returns a record of
\* score, issues, suggestions and strengths; for a text none of whose lines
\* is a SCORE line, a section header or an item line it returns the default
\* record, score 5.0 and three empty lists.
C21_ParserTolerance ==
    Parsed =>
        LET lines == StrippedLines
        IN  /\ ~parsed.raised
            /\ DOMAIN parsed.value = {"score", "issues", "suggestions", "strengths"}
            /\ (\A i \in DOMAIN lines :
                    /\ ~IsScoreLine(lines[i])
                    /\ ~IsHeaderLine(lines[i])
                    /\ ~IsItemLine(lines[i]))
               => parsed.value = DefaultRecord

\* The call on "no recognizable sections" followed by an empty line
C21_Witness ==
    /\ Parsed
    /\ response_text = <<"n","o"," ","r","e","c","o","g","n","i","z","a","b","l","e"," ","s","e","c","t","i","o","n","s","\n">>
    /\ parsed.value = DefaultRecord

\* The SCORE lines of the inputs that carry a number, and the first number on
\* each: "SCORE: 8.5/10" carries 8.5 and "SCORE: 7" carries 7
FirstNumberOn(line) ==
    IF line = <<"S","C","O","R","E",":"," ","8",".","5","/","1","0">> THEN 850
    ELSE IF line = <<"S","C","O","R","E",":"," ","7">> THEN 700
    ELSE -1

\* The indices of the SCORE lines among `lines` that carry a number
NumericScoreLines(lines) == {i \in DOMAIN lines : FirstNumberOn(lines[i]) >= 0}

TooShort == <<"t","o","o"," ","s","h","o","r","t">>

\* C22: when the text has one SCORE line with a number, the parsed score is
\* the first number on that line, whatever follows it on the line ("SCORE:
\* 8.5/10" gives 8.5, not 10 and not 8); and an item under an ISSUES header
\* that follows the SCORE line is collected: "SCORE: 8.5/10", "ISSUES:",
\* "- too short" gives score 8.5 and issues ["too short"].
C22_FirstNumber ==
    Parsed =>
      LET lines == StrippedLines
          numeric == NumericScoreLines(lines)
      IN
        /\ \A i \in numeric :
              numeric = {i} => parsed.value.score = FirstNumberOn(lines[i])
        /\ \A i \in DOMAIN lines :
              (/\ i + 2 \in DOMAIN lines
               /\ IsScoreLine(lines[i])
               /\ lines[i + 1] = <<"I","S","S","U","E","S",":">>
               /\ lines[i + 2] = <<"-"," ">> \o TooShort)
              => \E j \in DOMAIN parsed.value.issues : parsed.value.issues[j] = TooShort
        /\ response_text = JoinLines(<< <<"S","C","O","R","E",":"," ","8",".","5","/","1","0">>,
                                        <<"I","S","S","U","E","S",":">>,
                                        <<"-"," ">> \o TooShort >>)
           => parsed.value = [score |-> 850, issues |-> <<TooShort>>,
                              suggestions |-> <<>>, strengths |-> <<>>]

\* The call on "SCORE: 8.5/10\nISSUES:\n- too short"
C22_Witness ==
    /\ Parsed
    /\ StrippedLines = << <<"S","C","O","R","E",":"," ","8",".","5","/","1","0">>,
                          <<"I","S","S","U","E","S",":">>,
                          <<"-"," ">> \o TooShort >>
    /\ parsed.value.score = 850
    /\ parsed.value.issues = <<TooShort>>

HasDigit(line) == \E k \in DOMAIN line : line[k] \in DigitChars

\* A SCORE line that carries no number
IsDigitlessScoreLine(line) == IsScoreLine(line) /\ ~HasDigit(line)

KeepsScore(line) == ~IsDigitlessScoreLine(Strip(line))

\* The lines of the text without the SCORE lines that carry no number
OtherLines == SelectSeq(Split(response_text, "\n"), KeepsScore)

\* C23: the parsed score is 5.0 when no line of the text is a SCORE line
\* carrying a digit (no SCORE line at all, or SCORE lines without a number);
\* a SCORE line without a number does not raise and leaves the score as it
\* is: the score is the one parsed from the text without those lines.
C23_DefaultScore ==
    Parsed =>
        LET lines == StrippedLines
            others == OtherLines
        IN  /\ ~parsed.raised
            /\ (\A i \in DOMAIN lines : IsScoreLine(lines[i]) => ~HasDigit(lines[i]))
               => parsed.value.score = 500
            /\ others # <<>> =>
                  parsed.value.score = _parse_review(JoinLines(others)).score

\* The call on "SCORE: n/a\nSCORE: 7\nSCORE: n/a": the score stays 7.0
C23_Witness ==
    /\ Parsed
    /\ StrippedLines = << <<"S","C","O","R","E",":"," ","n","/","a">>,
                          <<"S","C","O","R","E",":"," ","7">>,
                          <<"S","C","O","R","E",":"," ","n","/","a">> >>
    /\ Len(OtherLines) = 1
    /\ parsed.value.score = 700

\* The call on "SCORE: n/a\nSTRENGTHS:\n- b": the default score, and the
\* parsing goes on after the SCORE line
C23_DefaultWitness ==
    /\ Parsed
    /\ StrippedLines = << <<"S","C","O","R","E",":"," ","n","/","a">>,
                          <<"S","T","R","E","N","G","T","H","S",":">>,
                          <<"-"," ","b">> >>
    /\ parsed.value.score = 500
    /\ parsed.value.strengths = << <<"b">> >>

\* The header line that opens a section
HeaderOf(section) ==
    CASE section = "issues"      -> <<"I","S","S","U","E","S",":">>
      [] section = "suggestions" -> <<"S","U","G","G","E","S","T","I","O","N","S",":">>
      [] section = "strengths"   -> <<"S","T","R","E","N","G","T","H","S",":">>

\* The index of the last header line of `lines` before line i, 0 when there
\* is none
RECURSIVE LastHeaderBefore(_, _)
LastHeaderBefore(lines, i) ==
    IF i <= 1 THEN 0
    ELSE IF IsHeaderLine(lines[i - 1]) THEN i - 1
    ELSE LastHeaderBefore(lines, i - 1)

\* Line i of `lines` is an item line with a header line before it
ItemAfterHeader(lines, i) == IsItemLine(lines[i]) /\ LastHeaderBefore(lines, i) # 0

\* Line i of `lines` is an item line under the header of `section`
ItemUnder(lines, section, i) ==
    /\ ItemAfterHeader(lines, i)
    /\ lines[LastHeaderBefore(lines, i)] = HeaderOf(section)

\* The items of the lines from i on that stand under `section`, in order
RECURSIVE ItemsUnder(_, _, _)
ItemsUnder(lines, section, i) ==
    IF i > Len(lines) THEN <<>>
    ELSE (IF ItemUnder(lines, section, i) THEN <<Strip(From(lines[i], 3))>> ELSE <<>>)
            \o ItemsUnder(lines, section, i + 1)

\* C24: each of the three lists holds, in the order of the text, exactly the
\* items of the item lines whose most recent header line is the header of
\* that list; an item line with no header line before it is in no list.
C24_ItemsBySection ==
    Parsed =>
        LET lines == StrippedLines
        IN  /\ \A section \in {"issues", "suggestions", "strengths"} :
                  parsed.value[section] = ItemsUnder(lines, section, 1)
            /\ Len(parsed.value.issues) + Len(parsed.value.suggestions)
                  + Len(parsed.value.strengths)
                  = Cardinality({i \in DOMAIN lines : ItemAfterHeader(lines, i)})

\* The call on "- b\nSTRENGTHS:\n- too short": "b" is dropped and "too short"
\* is a strength only
C24_Witness ==
    /\ Parsed
    /\ StrippedLines = << <<"-"," ","b">>, <<"S","T","R","E","N","G","T","H","S",":">>,
                          <<"-"," ">> \o TooShort >>
    /\ parsed.value.strengths = <<TooShort>>
    /\ parsed.value.issues = <<>>
    /\ parsed.value.suggestions = <<>>

\* The call on "ISSUES:\n- too short\n - b ": two issues in the order read
C24_OrderWitness ==
    /\ Parsed
    /\ StrippedLines = << <<"I","S","S","U","E","S",":">>, <<"-"," ">> \o TooShort,
                          <<"-"," ","b">> >>
    /\ parsed.value.issues = <<TooShort, <<"b">> >>

-----------------------------------------------------------------------------
(* Properties of interleaved runs *)

\* The memory a call starts with: the style guide and nothing else
FreshMemory(r) ==
    [style_guide     |-> IF InvocationOf(r).style_guide # <<>>
                         THEN InvocationOf(r).style_guide ELSE DEFAULT_STYLE_GUIDE,
     research_data   |-> EmptyDict,
     drafts          |-> <<>>,
     seo_data        |-> EmptyDict,
     editor_feedback |-> <<>>]

\* C25: each call starts with a memory of its own that holds only its style
\* guide; a step changes the locals and the memory of one call and leaves
\* the research data, drafts, SEO data and feedback history of the other as
\* they are; what a memory holds is about its own call's topic, and the
\* iteration numbers of its feedback records are their positions in its own
\* history, whatever the other call has recorded.
C25_IndependentRuns ==
    /\ [](\A r \in RunIds :
            LET m == runs[r].memory
            IN  /\ runs[r].pc = "start" => m = FreshMemory(r)
                /\ m.style_guide = FreshMemory(r).style_guide
                /\ DOMAIN m.research_data # {} => m.research_data.topic = runs[r].topic
                /\ DOMAIN m.seo_data # {} => m.seo_data.topic = runs[r].topic
                /\ \A i \in DOMAIN m.editor_feedback : m.editor_feedback[i].iteration = i
                /\ runs[r].pc \in {"loop", "reviewed", "done"} =>
                      runs[r].iteration = Len(m.editor_feedback))
    /\ [][\E r \in RunIds :
            /\ runs'[r] # runs[r]
            /\ \A q \in RunIds \ {r} : runs'[q] = runs[q]]_vars

\* The first call has made two reviews and the second, in the middle of its
\* loop, one: the second call's record has iteration 1
C25_Witness ==
    /\ Len(runs[1].memory.editor_feedback) = 2
    /\ Len(runs[2].memory.editor_feedback) = 1
    /\ runs[2].pc = "reviewed"
    /\ runs[2].memory.editor_feedback[1].iteration = 1
    /\ runs[1].memory.research_data.topic # runs[2].memory.research_data.topic
    /\ runs[1].memory.drafts # runs[2].memory.drafts

-----------------------------------------------------------------------------
(* Properties of one MemoryBank *)

\* C26: a call of clear leaves research data, drafts, SEO data and feedback
\* history empty and the style guide as it was; right after it the feedback
\* count is 0, the latest draft is the empty string and the latest feedback
\* is the empty dict.
C26_Clear ==
    last_call.method = "clear" =>
        /\ bank.research_data = EmptyDict
        /\ bank.drafts = <<>>
        /\ bank.seo_data = EmptyDict
        /\ bank.editor_feedback = <<>>
        /\ bank.style_guide = last_call.self.style_guide
        /\ get_feedback_count(bank) = 0
        /\ get_latest_draft(bank) = <<>>
        /\ get_latest_feedback(bank) = EmptyDict

\* clear has been called on a memory with a style guide of its own and all
\* four collections filled
C26_Witness ==
    /\ last_call.method = "clear"
    /\ last_call.self.style_guide = <<"f", "u", "n">>
    /\ DOMAIN last_call.self.research_data # {}
    /\ DOMAIN last_call.self.seo_data # {}
    /\ Len(last_call.self.drafts) = 2
    /\ Len(last_call.self.editor_feedback) = 2
    /\ bank = MemoryBank(<<"f", "u", "n">>)

-----------------------------------------------------------------------------
(* Properties of the heuristic score *)

\* A draft with a header and, under or around it, some text of its own
WellFormed(text) ==
    LET lines == Split(text, "\n")
    IN  /\ \E i \in DOMAIN lines : IsHeader(lines[i])
        /\ \E i \in DOMAIN lines : ~IsHeader(lines[i]) /\ Strip(lines[i]) # <<>>

\* C27: the heuristic score of a well-formed draft without its ## and ###
\* headers is not higher than the score of the draft with them; both scores
\* lie in [0, 10].
C27_Monotone ==
    "stripped" \in DOMAIN scored =>
        /\ WellFormed(scored.draft) => scored.stripped <= scored.basic_score
        /\ scored.basic_score \in 0..1000
        /\ scored.stripped \in 0..1000
        /\ ~Contains(draft_text, <<"#","#">>)

\* A draft with a header, two paragraphs and a bullet list was scored, and
\* scored lower once its headers were gone
C27_Witness ==
    /\ "stripped" \in DOMAIN scored
    /\ WellFormed(scored.draft)
    /\ Paragraphs(scored.draft, FALSE) >= 2
    /\ Contains(scored.draft, <<"\n","-"," ">>)
    /\ draft_text # scored.draft
    /\ scored.stripped < scored.basic_score

-----------------------------------------------------------------------------
(* Properties of the order of reviews and revisions *)

LastStage(s) == IF s = <<>> THEN "" ELSE s[Len(s)]

LastApproved(rs) == rs # <<>> /\ rs[Len(rs)].approved

\* The loop ended the last step with a review that did not approve
RevisionDue == LastStage(stages) = "Review" /\ ~LastApproved(reviewed)

\* C28: a revision is the step right after a review that did not approve,
\* and only that: after such a review the run waits for the writer and its
\* next step is the revision; after a revision the while condition holds and
\* the next step is a review; after a review that approved, the run takes no
\* further review or revision and drafts and feedback history stay as they
\* are up to the final assembly.
C28_ReviewReviseOrder ==
    /\ [](/\ RevisionDue => pc = "reviewed"
          /\ LastStage(stages) = "Revise" =>
                pc = "loop" /\ LoopCondition(approved, iteration, MAX_EDITOR_ITERATIONS)
          /\ LastApproved(reviewed) =>
                /\ approved /\ pc \in {"loop", "done"}
                /\ ~LoopCondition(approved, iteration, MAX_EDITOR_ITERATIONS)
                /\ LastStage(stages) \in {"Review", "Assemble"})
    /\ [][/\ stages' = Append(stages, "Revise") => RevisionDue
          /\ RevisionDue => stages' = Append(stages, "Revise")
          /\ LastStage(stages) = "Revise" => stages' = Append(stages, "Review")
          /\ LastApproved(reviewed) =>
                /\ stages' = Append(stages, "Assemble")
                /\ pc' = "done"
                /\ reviewed' = reviewed
                /\ memory'.drafts = memory.drafts
                /\ memory'.editor_feedback = memory.editor_feedback]_vars

\* A run with budget 3 that is done after a review that did not approve, the
\* revision it asked for, and a second review that approved on the score
C28_Witness ==
    /\ pc = "done"
    /\ MAX_EDITOR_ITERATIONS = 3
    /\ Len(reviewed) = 2
    /\ ~reviewed[1].approved
    /\ reviewed[2].approved
    /\ Len(memory.drafts) = 3
    /\ stages = <<"Research", "Draft", "Optimize", "Review", "Revise", "Review", "Assemble">>

-----------------------------------------------------------------------------
(* Properties of the published draft and of the drafts a revision adds *)

\* C29: in a finished run the body of the article is the last entry of
\* drafts; when the run made a review, it is the draft the last review was
\* given, and drafts has no entry added after that review.
C29_PublishedDraft ==
    pc = "done" =>
        /\ memory.drafts # <<>>
        /\ article.body = memory.drafts[Len(memory.drafts)]
        /\ reviewed # <<>> =>
              /\ article.body = reviewed[Len(reviewed)].draft
              /\ Len(memory.drafts) = reviewed[Len(reviewed)].drafts

\* A finished run whose last review examined a revised draft that differs
\* from the draft of the first review
C29_Witness ==
    /\ pc = "done"
    /\ Len(reviewed) = 2
    /\ reviewed[1].draft # reviewed[2].draft
    /\ memory.drafts[1] # reviewed[2].draft
    /\ article.body = reviewed[2].draft

\* C30: a revision adds one entry at the end of drafts and leaves the
\* entries before it as they were, whether its generation call returns or
\* fails; when the call fails, the new entry equals the entry that was last
\* before the revision.
C30_ReviseAppends ==
    [][stages' = Append(stages, "Revise") =>
          /\ Len(memory'.drafts) = Len(memory.drafts) + 1
          /\ SubSeq(memory'.drafts, 1, Len(memory.drafts)) = memory.drafts
          /\ memory.drafts # <<>>
          /\ ~calls'[Len(calls')].ok =>
                memory'.drafts[Len(memory'.drafts)] = memory.drafts[Len(memory.drafts)]]_vars

\* The last step was a revision whose generation call failed: the two last
\* drafts are the same text, and it is not the placeholder of a first draft
C30_Witness ==
    /\ stages # <<>> /\ stages[Len(stages)] = "Revise"
    /\ calls[Len(calls)] = Call("revise", [ok |-> FALSE])
    /\ Len(memory.drafts) = 3
    /\ memory.drafts[3] = memory.drafts[2]
    /\ Contains(memory.drafts[3], <<"\n","-"," ">>)

-----------------------------------------------------------------------------
(* Properties of the parser on texts with several SCORE lines *)

\* The largest index in a non-empty set of indices
LastOf(indices) == CHOOSE i \in indices : \A j \in indices : j <= i

DropsScoreLine(line) == ~IsScoreLine(Strip(line))

\* The lines of the text without its SCORE lines
ScorelessLines == SelectSeq(Split(response_text, "\n"), DropsScoreLine)

\* C33: when SCORE lines of the text carry a number, the parsed score is the
\* first number of the last such line, also when SCORE lines without a
\* number follow it; a SCORE line leaves the open section as it is: the three
\* lists are the ones parsed from the text without its SCORE lines.
C33_LastScoreLine ==
    Parsed =>
        LET lines == StrippedLines
            numeric == NumericScoreLines(lines)
            scoreless == ScorelessLines
            lists == IF scoreless = <<>> THEN DefaultRecord
                     ELSE _parse_review(JoinLines(scoreless))
        IN  /\ numeric # {} => parsed.value.score = FirstNumberOn(lines[LastOf(numeric)])
            /\ \A section \in {"issues", "suggestions", "strengths"} :
                  parsed.value[section] = lists[section]

\* The call on "SCORE: 7\nSCORE: 8.5/10\nSCORE: n/a": the score is 8.5
C33_Witness ==
    /\ Parsed
    /\ StrippedLines = << <<"S","C","O","R","E",":"," ","7">>,
                          <<"S","C","O","R","E",":"," ","8",".","5","/","1","0">>,
                          <<"S","C","O","R","E",":"," ","n","/","a">> >>
    /\ parsed.value.score = 850

\* The call on "ISSUES:\nSCORE: 7\n- too short": the item after the SCORE
\* line is an issue
C33_SectionWitness ==
    /\ Parsed
    /\ StrippedLines = << <<"I","S","S","U","E","S",":">>,
                          <<"S","C","O","R","E",":"," ","7">>,
                          <<"-"," ">> \o TooShort >>
    /\ parsed.value = [score |-> 700, issues |-> <<TooShort>>,
                       suggestions |-> <<>>, strengths |-> <<>>]

-----------------------------------------------------------------------------
(* Properties of the editorial report *)

\* C32: in a finished run the report says APPROVED exactly when the run has
\* a feedback record and the score of the last one is at least the quality
\* threshold, and NEEDS WORK otherwise; so a run whose last review approved
\* only because the iteration budget was used up, with a score under the
\* threshold, is reported as NEEDS WORK.
C32_ReportLabel ==
    pc = "done" =>
        LET history == memory.editor_feedback
            passed  == history # <<>> /\ history[Len(history)].score >= QUALITY_THRESHOLD
        IN  /\ report.status \in {"APPROVED", "NEEDS WORK"}
            /\ report.status = "APPROVED" <=> passed
            /\ report.iterations = Len(history)
            /\ (LastApproved(reviewed) /\ ~passed) => report.status = "NEEDS WORK"

\* A finished run of budget 2 whose second review approved with a score
\* under the threshold: the report says NEEDS WORK
C32_Witness ==
    /\ pc = "done"
    /\ MAX_EDITOR_ITERATIONS = 2
    /\ Len(reviewed) = 2
    /\ reviewed[2].approved /\ approved
    /\ memory.editor_feedback[2].score < QUALITY_THRESHOLD
    /\ report.status = "NEEDS WORK"

\* A finished run whose last review approved on the score: APPROVED
C32_ApprovedWitness ==
    /\ pc = "done"
    /\ MAX_EDITOR_ITERATIONS = 3
    /\ Len(reviewed) = 1
    /\ memory.editor_feedback[1].score >= QUALITY_THRESHOLD
    /\ report.status = "APPROVED"

-----------------------------------------------------------------------------
(* Properties of what reviews and revisions work from *)

\* C31: a review examines the last entry of drafts as it is when the review
\* runs; the revision after it builds its prompt from that same draft, still
\* the last entry, and from the issues, suggestions and score of the record
\* that review returned, which is the last entry of the feedback history;
\* the first draft is written from the research brief, with no feedback.
C31_WorksFromLatest ==
    [][/\ Len(reviewed') = Len(reviewed) + 1 =>
             /\ memory.drafts # <<>>
             /\ reviewed'[Len(reviewed')].draft = memory.drafts[Len(memory.drafts)]
       /\ stages' = Append(stages, "Revise") =>
             LET p    == prompts'[Len(prompts')]
                 last == memory.editor_feedback[Len(memory.editor_feedback)]
             IN  /\ Len(prompts') = Len(prompts) + 1
                 /\ p.kind = "revision"
                 /\ p.draft = memory.drafts[Len(memory.drafts)]
                 /\ p.draft = reviewed[Len(reviewed)].draft
                 /\ feedback = last
                 /\ reviewed[Len(reviewed)].feedback = last
                 /\ p.issues = last.issues
                 /\ p.suggestions = last.suggestions
                 /\ p.score = last.score
       /\ stages' = Append(stages, "Draft") =>
             /\ prompts = <<>> /\ Len(prompts') = 1
             /\ prompts'[1].kind = "initial"
             /\ prompts'[1].findings = research_brief.findings
             /\ memory.editor_feedback = <<>>]_vars

\* Two revisions were made: the second worked from the revised draft the
\* second review examined, not from an earlier one, and from the second
\* feedback record, which differs from the first
C31_Witness ==
    /\ Len(prompts) = 3 /\ Len(reviewed) >= 2 /\ Len(memory.drafts) >= 4
    /\ prompts[1].kind = "initial"
    /\ prompts[3].kind = "revision"
    /\ prompts[3].draft = reviewed[2].draft
    /\ prompts[3].draft = memory.drafts[3]
    /\ memory.drafts[3] # memory.drafts[2]
    /\ prompts[3].issues = memory.editor_feedback[2].issues
    /\ memory.editor_feedback[2] # memory.editor_feedback[1]
    /\ prompts[3].issues # prompts[2].issues

-----------------------------------------------------------------------------
(* Properties of the SEO data and of the metadata of the article *)

\* The last step was the Optimize stage with both of its calls failed
OptimizeFailedTwice ==
    /\ stages # <<>> /\ stages[Len(stages)] = "Optimize"
    /\ calls[Len(calls) - 1] = Call("keywords", [ok |-> FALSE])
    /\ calls[Len(calls)] = Call("optimize", [ok |-> FALSE])

\* C34: once the Optimize stage has run, the stored SEO data is a record of
\* keywords, topic and optimized, with optimized true and at least one
\* entry in keywords; this holds too when both calls of the stage failed, and
\* then the draft the stage appended equals the draft before it.
C34_SeoRecord ==
    /\ pc \in {"loop", "reviewed", "done"} =>
          /\ DOMAIN memory.seo_data = {"keywords", "topic", "optimized"}
          /\ memory.seo_data.optimized = TRUE
          /\ Len(memory.seo_data.keywords) >= 1
          /\ memory.seo_data.topic = topic
    /\ OptimizeFailedTwice =>
          /\ memory.seo_data.optimized = TRUE
          /\ Len(memory.seo_data.keywords) = 4
          /\ Len(memory.drafts) = 2
          /\ memory.drafts[2] = memory.drafts[1]

\* Right after an Optimize stage whose two calls failed
C34_Witness ==
    /\ OptimizeFailedTwice
    /\ pc = "loop"
    /\ memory.seo_data.optimized
    /\ memory.seo_data.keywords # <<>>
    /\ memory.drafts[2] = memory.drafts[1]

\* An empty answer of the keyword call: the list has one entry, the empty
\* keyword
C34_EmptyAnswerWitness ==
    /\ pc = "loop"
    /\ calls[Len(calls) - 1] = Call("keywords", [ok |-> TRUE])
    /\ memory.seo_data.keywords = << <<>> >>

\* Whether some line of a response text starts with TITLE:, the test of
\* seo_agent.py:162
HasTitleLine(text) ==
    \E i \in DOMAIN Split(text, "\n") :
        StartsWith(Split(text, "\n")[i], <<"T","I","T","L","E",":">>)

\* C35: the metadata of the assembled article has at least the keys title,
\* date and keywords; its title is the topic when the meta-tag call failed
\* and when the response of that call has no line starting with TITLE:; its
\* keywords are the keyword list of the stored SEO data and its sources are
\* the sources of the brief the Research stage returned.
C35_Metadata ==
    pc = "done" =>
        LET c == calls[Len(calls)]
        IN  /\ c.call = "meta_tags"
            /\ {"title", "date", "keywords"} \subseteq DOMAIN article.metadata
            /\ ~c.ok => article.metadata.title = topic
            /\ (c.ok /\ ~HasTitleLine(c.text)) => article.metadata.title = topic
            /\ (c.ok /\ HasTitleLine(c.text)) => article.metadata.title = <<"T">>
            /\ article.metadata.keywords = memory.seo_data.keywords
            /\ article.metadata.sources = research_brief.sources

\* A finished run whose meta-tag call failed: the title is the topic, the
\* keywords and the sources are the generated ones
C35_Witness ==
    /\ pc = "done"
    /\ ~calls[Len(calls)].ok
    /\ article.metadata.title = topic
    /\ article.metadata.keywords = << <<"a","i">>, <<"b","o","t","s">> >>
    /\ research_brief.sources # <<>>
    /\ article.metadata.sources = research_brief.sources

\* A finished run whose meta-tag call answered without a TITLE: line
C35_NoTitleLineWitness ==
    /\ pc = "done"
    /\ calls[Len(calls)].ok
    /\ ~HasTitleLine(calls[Len(calls)].text)
    /\ article.metadata.title = topic

\* A finished run whose meta-tag call answered with a TITLE: line
C35_TitleLineWitness ==
    /\ pc = "done"
    /\ calls[Len(calls)].ok
    /\ article.metadata.title = <<"T">>
    /\ article.metadata.title # topic


=============================================================================
